---- MODULE Spec2Model ----
(***************************************************************************)
(* Verification model of iflow2api: the concurrency gate around upstream   *)
(* chat calls (app.py), the re-encoding of the upstream stream into the    *)
(* messages-endpoint event stream (app.py, proxy.py), the translation of   *)
(* requests and responses between the two dialects (app.py), the answers   *)
(* of the two chat endpoints, the telemetry of a chat call (proxy.py), the *)
(* rate limiter (ratelimit.py), the OAuth token refresher and its threads  *)
(* (token_refresher.py, config.py, oauth.py), the server manager           *)
(* (server.py) and the custom API authentication (app.py).                 *)
(*                                                                         *)
(* The specifications share the variables:                                 *)
(*   Spec           callers going through the gate (_api_request_lock)     *)
(*   SpecFair       the same under fair scheduling                         *)
(*   SpecStream     one stream, line by line, on either endpoint           *)
(*   SpecTranslate  one conversation translated and taken back             *)
(*   SpecAnswer     one chat request from its arrival to its answer        *)
(*   SpecTelemetry  chat calls and their telemetry requests                *)
(*   SpecRefresh    the background check loop and the refresh operation    *)
(*   SpecRetry      executions of the refresh operation, one at a time     *)
(*   SpecOverlap    the check loop and calls of the refresh at any time    *)
(*   SpecThreads    start(), stop() and the loop threads of the refresher  *)
(*   SpecLimiter    requests of two clients against the rate limiter       *)
(*   SpecServer     start(), stop() and the threads of the server manager  *)
(*   SpecAuth       requests against the authentication middleware         *)
(* Each leaves the variables of the other parts at their idle values.      *)
(***************************************************************************)
EXTENDS Integers, Sequences, FiniteSets, TLC

VARIABLES
    \* ---- gate (app.py: _api_request_lock and the four chat code paths)
    capacity,       \* settings.api_concurrency the semaphore was built with
    sem_value,      \* asyncio.Semaphore._value: free permits
    waiters,        \* callers blocked in acquire(), in arrival order
    pc,             \* caller -> position in its handler / generator
    kind,           \* caller -> which of the four chat code paths it runs
    chunk_count,    \* caller -> chunk_count of generate_with_lock
    cancelled,      \* caller -> a CancelledError is in flight in the finally block
    acquired,       \* caller -> number of permits it took (history)
    released,       \* caller -> number of permits it gave back (history)
    outcome,        \* caller -> how its call ended
    trace,          \* caller -> telemetry and upstream request of its streaming call
    \* ---- one stream (proxy.stream_generator + the app.py generators)
    s_endpoint,     \* "messages" | "completions"
    s_preserve,     \* settings.preserve_reasoning_content
    s_pc,           \* "streaming" | "finished" | "aborted"
    s_input,        \* upstream lines delivered so far (history)
    s_events,       \* events / chunks yielded to the caller so far
    s_state,        \* StreamState of generate_anthropic_stream_with_lock
    s_count,        \* chunk_count of generate_with_lock (completions endpoint)
    \* ---- token refresher (token_refresher.py)
    r_cred,         \* the credential in ~/.iflow/settings.json
    r_now,          \* wall clock, hours
    r_running,      \* OAuthTokenRefresher._running
    r_checks,       \* periodic checks done so far
    r_last,         \* what the last check found and did
    r_op,           \* execution -> frame of that _refresh_token_with_retry
    r_ended,        \* the execution that ended last, as it ended
    r_requests,     \* refresh tokens sent to the OAuth token endpoint (history)
    r_settings,     \* retry_count and retry_delay of the refresher
    r_fresh,        \* access token of the last execution that returned True
    \* ---- the live credential (app.py: _proxy / _config; proxy.py: _get_headers)
    p_config,       \* whether get_proxy() has run, and _config
    p_sent,         \* the headers of the last chat request
    \* ---- custom API authentication (app.py: custom_auth_middleware)
    a_settings,     \* the settings load_settings() returns now
    a_cache,        \* _settings_cache: the settings last loaded, and their age
    a_last,         \* the last request: what it was and how it was answered
    \* ---- one chat request and its answer (app.py: the two chat handlers)
    e_pc,           \* "idle" | "wait" | "call" | "done"
    e_req,          \* the request as it arrived
    e_permits,      \* permits of the gate taken for it (history)
    e_sent,         \* the request sent upstream for it
    e_up,           \* what upstream answered
    e_answer,       \* what the caller got
    \* ---- one conversation translated (app.py: anthropic_to_openai_request)
    t_pc,           \* "idle" | "translated" | "returned"
    t_conv,         \* the messages of the messages-endpoint request
    t_out,          \* message -> the upstream messages made of it
    t_back,         \* message -> the blocks its upstream message gives back
    \* ---- telemetry of chat calls (proxy.py: chat_completions)
    m_calls,        \* call -> its position, trace id, outcome and request log
    m_next,         \* the next value secrets.token_hex gives
    \* ---- the rate limiter (ratelimit.py: RateLimiter)
    l_limits,       \* per_minute, per_hour, per_day of the limiter
    l_requests,     \* _requests: client -> the timestamps recorded
    l_admitted,     \* client -> the timestamps of its admitted requests (history)
    l_now,          \* time.time()
    l_ticks,        \* how often the clock moved
    l_calls,        \* calls of is_allowed so far
    l_answer,       \* the last call of is_allowed and its answer
    \* ---- the threads of the token refresher (token_refresher.py: start, stop, _run_loop)
    h_running,      \* _running
    h_event,        \* _stop_event is set
    h_thread,       \* _thread: the thread stop() will join (0: None)
    h_pc,           \* thread -> where its _run_loop is
    h_stop,         \* idle | joining: where a call of stop() is
    h_stopped,      \* stop() has returned and start() was not called since (history)
    h_late,         \* a check began while h_stopped (history)
    \* ---- the server manager (server.py: ServerManager)
    v_state,        \* _state
    v_thread,       \* _thread: the thread last started (0: None)
    v_server,       \* _server: the thread whose uvicorn.Server it is (0: None)
    v_pc,           \* thread -> where its _run_server is
    v_exit,         \* thread -> should_exit of its server
    v_stop,         \* idle | joining: where a call of stop() is
    v_stopped       \* stop() returned True and start() was not called since (history)

gateVars == <<capacity, sem_value, waiters, pc, kind, chunk_count, cancelled,
              acquired, released, outcome, trace>>
streamVars == <<s_endpoint, s_preserve, s_pc, s_input, s_events, s_state, s_count>>
refreshVars == <<r_cred, r_now, r_running, r_checks, r_last, r_op, r_ended, r_requests,
                 r_settings, r_fresh, p_config, p_sent>>
authVars == <<a_settings, a_cache, a_last>>
answerVars == <<e_pc, e_req, e_permits, e_sent, e_up, e_answer>>
translateVars == <<t_pc, t_conv, t_out, t_back>>
telemetryVars == <<m_calls, m_next>>
limiterVars == <<l_limits, l_requests, l_admitted, l_now, l_ticks, l_calls, l_answer>>
threadVars == <<h_running, h_event, h_thread, h_pc, h_stop, h_stopped, h_late>>
serverVars == <<v_state, v_thread, v_server, v_pc, v_exit, v_stop, v_stopped>>
vars == <<gateVars, streamVars, refreshVars, authVars, answerVars, translateVars,
          telemetryVars, limiterVars, threadVars, serverVars>>

(***************************************************************************)
(* Bounds of the model.                                                    *)
(***************************************************************************)
NumCallers == 2
MaxCapacity == 2
MaxChunks == 1

Callers == 1..NumCallers

(***************************************************************************)
(*                               THE GATE                                  *)
(***************************************************************************)
StreamKinds == {"openai_stream", "anthropic_stream"}
JsonKinds == {"openai_json", "anthropic_json"}
Kinds == StreamKinds \cup JsonKinds

\* Request bodies: well-formed, not JSON, or JSON without "messages".
Bodies == {"ok", "badjson", "nomessages"}

\* Positions at which a generator is suspended in a yield.
YieldPcs == {"y_start", "y_chunk", "y_evt", "y_done", "y_fb", "y_fb_done",
             "y_mdelta", "y_mstop"}
\* Positions at which a call is suspended in an await inside the gate.
AwaitPcs == {"open", "iter", "call"}
\* Positions between acquiring the gate and releasing it.
HoldingPcs == YieldPcs \cup AwaitPcs
\* Positions of a streaming call from its dispatch to its last event.
StreamBodyPcs == YieldPcs \cup {"open", "iter"}

\* asyncio.Semaphore(settings.api_concurrency); api_concurrency is ge=1.
\* A streaming call before chat_completions ran: whether _emit_run_started
\* gave a parent_observation_id, the state of the upstream streaming request,
\* and whether _emit_run_error was called.
NoTrace == [started |-> FALSE, upstream |-> "none", run_error |-> FALSE]

\* Leaving "async with client.stream(...)" closes the upstream response.
ClosedUpstream(t) ==
    [t EXCEPT !.upstream = IF @ = "open" THEN "closed" ELSE @]

GateInit ==
    /\ capacity \in 1..MaxCapacity
    /\ sem_value = capacity
    /\ waiters = <<>>
    /\ pc = [c \in Callers |-> "idle"]
    /\ kind = [c \in Callers |-> "none"]
    /\ chunk_count = [c \in Callers |-> 0]
    /\ cancelled = [c \in Callers |-> FALSE]
    /\ acquired = [c \in Callers |-> 0]
    /\ released = [c \in Callers |-> 0]
    /\ outcome = [c \in Callers |-> "none"]
    /\ trace = [c \in Callers |-> NoTrace]

GateIdle ==
    /\ capacity = 1
    /\ sem_value = 1
    /\ waiters = <<>>
    /\ pc = [c \in Callers |-> "idle"]
    /\ kind = [c \in Callers |-> "none"]
    /\ chunk_count = [c \in Callers |-> 0]
    /\ cancelled = [c \in Callers |-> FALSE]
    /\ acquired = [c \in Callers |-> 0]
    /\ released = [c \in Callers |-> 0]
    /\ outcome = [c \in Callers |-> "none"]
    /\ trace = [c \in Callers |-> NoTrace]

\* Semaphore.acquire proceeds only while a permit is free.
SemAcquirableNoCheck(v) == v >= 0
SemAcquirable(v) == v > 0

\* "async with _api_request_lock": __aexit__ gives the permit back however the
\* body is left: "return", "error" (an exception), "cancel" (CancelledError),
\* "close" (GeneratorExit thrown by aclose at a yield).
ExitValueNoFinally(how, v) == IF how \in {"cancel", "close"} THEN v ELSE v + 1
ExitValue(how, v) == v + 1

RemoveWaiter(q, c) == SelectSeq(q, LAMBDA x : x # c)

GateEnter(c) ==
    /\ sem_value' = sem_value - 1
    /\ acquired' = [acquired EXCEPT ![c] = @ + 1]

GateExit(c, how) ==
    /\ sem_value' = ExitValue(how, sem_value)
    /\ released' = [released EXCEPT ![c] = @ + (ExitValue(how, sem_value) - sem_value)]

\* The call of caller c is over, with the gate left the way `how` says; the
\* locals of its generator (chunk_count, the exception in flight) are gone.
Leave(c, how, result) ==
    /\ GateExit(c, how)
    /\ pc' = [pc EXCEPT ![c] = "done"]
    /\ outcome' = [outcome EXCEPT ![c] = result]
    /\ chunk_count' = [chunk_count EXCEPT ![c] = 0]
    /\ cancelled' = [cancelled EXCEPT ![c] = FALSE]

\* generate_with_lock: "else: if chunk_count > 0: yield [DONE]".
NeedsDone(n) == n > 0
\* generate_with_lock: "finally: if chunk_count == 0: yield fallback; yield [DONE]".
NeedsFallback(n) == n = 0

\* A chat request arrives. A body that does not parse, or has no "messages",
\* is answered at once; otherwise the call goes to the gate.
Request(c) ==
    /\ pc[c] = "idle"
    /\ \E k \in Kinds, b \in Bodies :
        /\ kind' = [kind EXCEPT ![c] = k]
        /\ IF b = "ok"
           THEN /\ pc' = [pc EXCEPT ![c] = "wait"]
                /\ waiters' = Append(waiters, c)
                /\ UNCHANGED outcome
           ELSE /\ pc' = [pc EXCEPT ![c] = "done"]
                /\ outcome' = [outcome EXCEPT ![c] = "client_error"]
                /\ UNCHANGED waiters
    /\ UNCHANGED <<capacity, sem_value, chunk_count, cancelled, acquired, released,
                   trace>>

\* __aenter__ of "async with _api_request_lock": first come, first served.
Acquire(c) ==
    /\ pc[c] = "wait"
    /\ waiters # <<>>
    /\ Head(waiters) = c
    /\ SemAcquirable(sem_value)
    /\ GateEnter(c)
    /\ waiters' = Tail(waiters)
    /\ pc' = [pc EXCEPT ![c] = IF kind[c] \in StreamKinds THEN "open" ELSE "call"]
    /\ UNCHANGED <<capacity, kind, chunk_count, cancelled, released, outcome, trace>>

\* The caller goes away while its call still waits for a permit.
CancelWaiting(c) ==
    /\ pc[c] = "wait"
    /\ waiters' = RemoveWaiter(waiters, c)
    /\ pc' = [pc EXCEPT ![c] = "done"]
    /\ outcome' = [outcome EXCEPT ![c] = "cancelled"]
    /\ UNCHANGED <<capacity, sem_value, kind, chunk_count, cancelled, acquired, released,
                   trace>>

\* Non-streaming: "result = await proxy.chat_completions(body, stream=False)"
\* returns or raises; the async with block ends either way.
CallEnds(c) ==
    /\ pc[c] = "call"
    /\ \E r \in {"ok", "error"} :
        Leave(c, IF r = "ok" THEN "return" ELSE "error", r)
    /\ UNCHANGED <<capacity, waiters, kind, acquired, trace>>

\* Streaming: "stream_gen = await proxy.chat_completions(body, stream=True)"
\* returns the upstream generator.
OpenStreamReleasesEarly(c) ==
    /\ pc[c] = "open"
    /\ GateExit(c, "return")
    /\ pc' = [pc EXCEPT ![c] =
                IF kind[c] = "openai_stream" THEN "iter" ELSE "y_start"]
    /\ \E started \in BOOLEAN : trace' = [trace EXCEPT ![c].started = started]
    /\ UNCHANGED <<capacity, waiters, kind, chunk_count, cancelled, acquired, outcome>>

OpenStream(c) ==
    /\ pc[c] = "open"
    /\ pc' = [pc EXCEPT ![c] =
                IF kind[c] = "openai_stream" THEN "iter" ELSE "y_start"]
    /\ \E started \in BOOLEAN : trace' = [trace EXCEPT ![c].started = started]
    /\ UNCHANGED <<capacity, sem_value, waiters, kind, chunk_count, cancelled,
                   acquired, released, outcome>>

\* proxy.chat_completions raises before it returns the generator.
OpenFails(c) ==
    /\ pc[c] = "open"
    /\ Leave(c, "error", "error")
    /\ UNCHANGED <<capacity, waiters, kind, acquired, trace>>

\* The upstream generator yields one more chunk.
NextChunk(c) ==
    /\ pc[c] = "iter"
    /\ chunk_count[c] < MaxChunks
    /\ chunk_count' = [chunk_count EXCEPT ![c] = @ + 1]
    /\ IF kind[c] = "openai_stream"
       THEN pc' = [pc EXCEPT ![c] = "y_chunk"]
       ELSE \E p \in {"y_evt", "iter"} : pc' = [pc EXCEPT ![c] = p]
    /\ trace' = [trace EXCEPT ![c].upstream = "open"]
    /\ UNCHANGED <<capacity, sem_value, waiters, kind, cancelled, acquired,
                   released, outcome>>

\* The upstream generator is exhausted.
UpstreamEnd(c) ==
    /\ pc[c] = "iter"
    /\ pc' = [pc EXCEPT ![c] =
                IF kind[c] = "anthropic_stream" THEN "y_mdelta"
                ELSE IF NeedsDone(chunk_count[c]) THEN "y_done"
                ELSE "y_fb"]
    /\ trace' = [trace EXCEPT ![c].upstream = "closed"]
    /\ UNCHANGED <<capacity, sem_value, waiters, kind, chunk_count, cancelled,
                   acquired, released, outcome>>

\* The upstream generator raises: the "except Exception" of stream_generator
\* sends run_error when there is a parent_observation_id, and re-raises.
\* generate_with_lock logs the exception and runs its finally block;
\* generate_anthropic_stream_with_lock lets it through.
UpstreamError(c) ==
    /\ pc[c] = "iter"
    /\ IF kind[c] = "openai_stream" /\ NeedsFallback(chunk_count[c])
       THEN /\ pc' = [pc EXCEPT ![c] = "y_fb"]
            /\ UNCHANGED <<sem_value, released, outcome, chunk_count, cancelled>>
       ELSE Leave(c, "error", "error")
    /\ trace' = [trace EXCEPT ![c].upstream = "closed",
                              ![c].run_error = trace[c].started]
    /\ UNCHANGED <<capacity, waiters, kind, acquired>>

\* The caller disconnects while the call is suspended in an await inside the
\* gate: CancelledError is raised there. In generate_with_lock's loop the
\* finally block still runs and yields the fallback when chunk_count == 0.
\* CancelledError is no Exception: stream_generator's handler does not run;
\* leaving its "async with" closes the upstream response.
CancelAwait(c) ==
    /\ pc[c] \in AwaitPcs
    /\ IF pc[c] = "iter" /\ kind[c] = "openai_stream" /\ NeedsFallback(chunk_count[c])
       THEN /\ pc' = [pc EXCEPT ![c] = "y_fb"]
            /\ cancelled' = [cancelled EXCEPT ![c] = TRUE]
            /\ UNCHANGED <<sem_value, released, outcome, chunk_count>>
       ELSE Leave(c, "cancel", "cancelled")
    /\ trace' = [trace EXCEPT ![c] = ClosedUpstream(@)]
    /\ UNCHANGED <<capacity, waiters, kind, acquired>>

\* The consumer asks a suspended generator for its next item.
Resume(c) ==
    /\ pc[c] \in YieldPcs
    /\ IF pc[c] \in {"y_start", "y_chunk", "y_evt"}
       THEN /\ pc' = [pc EXCEPT ![c] = "iter"]
            /\ UNCHANGED <<sem_value, released, outcome, chunk_count, cancelled>>
       ELSE IF pc[c] = "y_fb"
       THEN /\ pc' = [pc EXCEPT ![c] = "y_fb_done"]
            /\ UNCHANGED <<sem_value, released, outcome, chunk_count, cancelled>>
       ELSE IF pc[c] = "y_mdelta"
       THEN /\ pc' = [pc EXCEPT ![c] = "y_mstop"]
            /\ UNCHANGED <<sem_value, released, outcome, chunk_count, cancelled>>
       ELSE IF cancelled[c]
       THEN Leave(c, "cancel", "cancelled")
       ELSE Leave(c, "return", "ok")
    /\ UNCHANGED <<capacity, waiters, kind, acquired, trace>>

\* The consumer drops a suspended generator: aclose() throws GeneratorExit at
\* the yield, which no "except Exception" catches. The upstream generator it
\* was iterating is dropped with it and closed by its finalizer.
Close(c) ==
    /\ pc[c] \in YieldPcs
    /\ Leave(c, "close", "cancelled")
    /\ trace' = [trace EXCEPT ![c] = ClosedUpstream(@)]
    /\ UNCHANGED <<capacity, waiters, kind, acquired>>

(***************************************************************************)
(* Claims about the gate, checked under Spec.                              *)
(***************************************************************************)
Dispatched == {c \in Callers : pc[c] \in HoldingPcs}
Queued == {waiters[i] : i \in 1..Len(waiters)}

\* C1: with gate capacity N (api_concurrency), at every moment at most N chat
\* calls, streaming or not, on either endpoint, are between acquiring the gate
\* and releasing it; a call that cannot be dispatched waits in the queue, and a
\* call that ended without ever being dispatched ended because of its own body
\* or its own caller, never because the gate was busy.
C1_AtMostCapacityDispatched ==
    /\ Cardinality(Dispatched) <= capacity
    /\ \A c \in Callers : pc[c] = "wait" => c \in Queued
    /\ \A c \in Callers :
        (pc[c] = "done" /\ acquired[c] = 0)
            => outcome[c] \in {"client_error", "cancelled"}

\* Capacity 1, one call dispatched and another caller waiting for it.
C1_Witness ==
    /\ capacity = 1
    /\ \E c, d \in Callers : c # d /\ pc[c] \in HoldingPcs /\ pc[d] = "wait"

\* C2: every chat call that acquired a permit releases it exactly once on every
\* way it can end (completion, upstream error, disconnect/cancellation, also of
\* a stream cancelled before its first chunk); once all calls have ended the
\* free permits equal the capacity again.
C2_PermitReleasedExactlyOnce ==
    /\ \A c \in Callers : released[c] <= acquired[c] /\ acquired[c] <= 1
    /\ \A c \in Callers : pc[c] = "done" => released[c] = acquired[c]
    /\ (\A c \in Callers : pc[c] = "done") => sem_value = capacity

\* All calls over, one of them a stream that was cancelled while it held a
\* permit, another one an upstream error.
C2_Witness ==
    /\ \A c \in Callers : pc[c] = "done"
    /\ \E c \in Callers :
        kind[c] \in StreamKinds /\ outcome[c] = "cancelled" /\ released[c] = 1
    /\ \E c \in Callers : outcome[c] = "error" /\ released[c] = 1

\* C3: a streaming call holds its permit from before its upstream request is
\* dispatched until its last event has been yielded; at capacity 1 no other
\* call is dispatched while an event of the stream is still to be produced.
C3_PermitHeldForWholeStream ==
    \A c \in Callers :
        (kind[c] \in StreamKinds /\ pc[c] \in StreamBodyPcs)
            => /\ acquired[c] = 1
               /\ released[c] = 0
               /\ capacity = 1 => \A d \in Callers \ {c} : pc[d] \notin HoldingPcs

\* Capacity 1: a stream suspended at its last event while another call waits.
C3_Witness ==
    /\ capacity = 1
    /\ \E c, d \in Callers :
        /\ c # d
        /\ pc[c] \in {"y_mstop", "y_done", "y_fb_done"}
        /\ pc[d] = "wait"

\* C19: when the caller disconnects in the middle of a streaming call (the
\* upstream streaming request had been opened, run_started had been sent),
\* the upstream request is closed, the gate permit is given back, and a
\* run_error telemetry event has been sent for the call.
C19_DisconnectAbortsAndReports ==
    \A c \in Callers :
        (/\ kind[c] \in StreamKinds
         /\ outcome[c] = "cancelled"
         /\ trace[c].started
         /\ trace[c].upstream # "none") =>
            /\ trace[c].upstream = "closed"
            /\ released[c] = acquired[c]
            /\ trace[c].run_error

MaxLines == 3

NoText == <<>>
TextA == <<"a", "b", "c", "d", "e">>
TextR == <<"r", "s", "t">>
ArgsJ == <<"{", "}">>

NoId == [src |-> "none", n |-> 0]
UpstreamId(i) == [src |-> "upstream", n |-> i]
\* f"toolu_{uuid.uuid4().hex[:24]}": a fresh id, told apart by the block it names.
SynthId(b) == [src |-> "synth", n |-> b]

\* One element of delta["tool_calls"].
ToolDelta(i, id, name, args) == [index |-> i, id |-> id, name |-> name, args |-> args]

ToolDeltaLists ==
    { <<>>,
      <<ToolDelta(0, UpstreamId(0), "f", NoText)>>,
      <<ToolDelta(0, NoId, "", ArgsJ)>>,
      <<ToolDelta(1, NoId, "g", ArgsJ)>>,
      <<ToolDelta(0, UpstreamId(0), "f", ArgsJ), ToolDelta(1, UpstreamId(1), "g", NoText)>> }

FinishReasons == {"null", "stop", "length", "tool_calls", "content_filter"}

JsonLine(ch, c, r, t, f) ==
    [kind |-> "json", choices |-> ch, content |-> c, reasoning |-> r,
     tools |-> t, finish |-> f]
OtherLine(k) == [JsonLine(FALSE, NoText, NoText, <<>>, "null") EXCEPT !.kind = k]

\* The lines upstream may send: blank lines, "data: [DONE]", lines that are
\* no "data:" JSON, a JSON chunk without choices, and JSON chunks whose first
\* choice carries text, reasoning, tool-call deltas and/or a finish reason.
UpstreamLines ==
    { OtherLine("blank"), OtherLine("done"), OtherLine("junk"),
      JsonLine(FALSE, NoText, NoText, <<>>, "null"),
      JsonLine(TRUE, NoText, NoText, <<>>, "null"),
      JsonLine(TRUE, TextA, NoText, <<>>, "null"),
      JsonLine(TRUE, NoText, TextR, <<>>, "null"),
      JsonLine(TRUE, TextA, TextR, <<>>, "null"),
      JsonLine(TRUE, TextA, TextA, <<>>, "null") }
    \cup { JsonLine(TRUE, NoText, NoText, t, "null") : t \in ToolDeltaLists \ {<<>>} }
    \cup { JsonLine(TRUE, NoText, NoText, <<>>, f) : f \in FinishReasons \ {"null"} }
    \cup { JsonLine(TRUE, TextA, NoText, <<ToolDelta(0, UpstreamId(0), "f", ArgsJ)>>, "tool_calls") }

\* Does the line carry content (text, reasoning or a tool-call delta)?
HasContent(line) ==
    /\ line.kind = "json"
    /\ line.choices
    /\ (line.content # NoText \/ line.reasoning # NoText \/ line.tools # <<>>)

\* proxy._normalize_stream_chunk on the delta of the first choice.
NormalizeStreamChunk(line, preserve) ==
    IF ~line.choices THEN line
    ELSE IF line.content = NoText /\ line.reasoning # NoText
    THEN IF preserve THEN line
         ELSE [line EXCEPT !.content = line.reasoning, !.reasoning = NoText]
    ELSE IF line.content # NoText /\ line.reasoning # NoText
    THEN IF line.content = line.reasoning THEN [line EXCEPT !.reasoning = NoText]
         ELSE IF ~preserve THEN [line EXCEPT !.reasoning = NoText]
         ELSE line
    ELSE line

\* What proxy.stream_generator yields for one upstream line: b"\n" for a blank
\* line, "data: [DONE]", the normalized JSON chunk, or the line as it came.
ProxyChunk(line, preserve) ==
    IF line.kind = "json" THEN NormalizeStreamChunk(line, preserve) ELSE line

\* app.parse_openai_sse_chunk: the parsed JSON, or nothing (None).
ParsesToChunk(chunk) == chunk.kind = "json"

\* app.extract_content_from_delta.
ExtractContentFromDeltaNoThinking(delta, preserve) ==
    IF delta.content # NoText THEN [content |-> delta.content, type |-> "text"]
    ELSE IF delta.reasoning # NoText
    THEN [content |-> delta.reasoning, type |-> "text"]
    ELSE [content |-> NoText, type |-> ""]
ExtractContentFromDelta(delta, preserve) ==
    IF delta.content # NoText THEN [content |-> delta.content, type |-> "text"]
    ELSE IF delta.reasoning # NoText
    THEN [content |-> delta.reasoning,
          type |-> IF preserve THEN "thinking" ELSE "text"]
    ELSE [content |-> NoText, type |-> ""]

\* ---- events of the messages endpoint (the create_anthropic_* builders)
Ev(type, index, sub, text, id, name) ==
    [type |-> type, index |-> index, sub |-> sub, text |-> text, id |-> id,
     name |-> name]
MessageStart == Ev("message_start", -1, "", NoText, NoId, "")
ContentBlockStart(i, t) ==
    Ev("content_block_start", i, IF t = "thinking" THEN "thinking" ELSE "text",
       NoText, NoId, "")
ContentBlockDelta(text, i, dt) ==
    Ev("content_block_delta", i,
       IF dt = "thinking_delta" THEN "thinking_delta" ELSE "text_delta",
       text, NoId, "")
ContentBlockStop(i) == Ev("content_block_stop", i, "", NoText, NoId, "")
ToolUseBlockStart(i, id, name) == Ev("content_block_start", i, "tool_use", NoText, id, name)
InputJsonDelta(args, i) == Ev("content_block_delta", i, "input_json_delta", args, NoId, "")
MessageDelta(reason, tokens) == Ev("message_delta", tokens, reason, NoText, NoId, "")
MessageStop == Ev("message_stop", -1, "", NoText, NoId, "")

\* ---- chunks of the completions endpoint (bytes passed through)
DoneChunk == Ev("done", -1, "", NoText, NoId, "")
\* the fallback chunk of generate_with_lock: delta.content is a fixed notice
FallbackText == <<"e", "m", "p", "t", "y">>
FallbackChunk == Ev("data", -1, "stop", FallbackText, NoId, "")
PassedChunk(chunk) ==
    IF chunk.kind = "json"
    THEN Ev("data", -1, chunk.finish,
            IF chunk.choices THEN chunk.content \o chunk.reasoning ELSE NoText,
            NoId, IF chunk.choices /\ chunk.tools # <<>> THEN "tools" ELSE "")
    ELSE IF chunk.kind = "done" THEN DoneChunk
    ELSE Ev(chunk.kind, -1, "", NoText, NoId, "")

\* StreamState at the start of generate_anthropic_stream_with_lock.
InitialStreamState ==
    [block_index |-> 0,
     current_text_block_type |-> "none",
     current_text_block_index |-> -1,
     tool_call_block_map |-> <<>>,
     current_tc_index |-> -1,
     stop_reason |-> "end_turn",
     output_tokens |-> 0]

\* ---- _process_parsed_chunk, in three parts; each maps a record
\* [st |-> StreamState, out |-> events yielded so far] to the next one.

\* The text / thinking part.
ProcessTextNoIncrement(acc, delta, preserve) ==
    LET ex == ExtractContentFromDelta(delta, preserve)
        st == acc.st
    IN  IF ex.content # NoText /\ ex.type # ""
        THEN LET switch == st.current_text_block_type # ex.type
                 closing == IF switch /\ st.current_text_block_type # "none"
                            THEN <<ContentBlockStop(st.current_text_block_index)>>
                            ELSE <<>>
                 opening == IF switch
                            THEN <<ContentBlockStart(st.block_index, ex.type)>>
                            ELSE <<>>
                 idx == IF switch THEN st.block_index ELSE st.current_text_block_index
                 dt == IF ex.type = "thinking" THEN "thinking_delta" ELSE "text_delta"
             IN  [st |-> [st EXCEPT
                            !.current_text_block_index = idx,
                            !.current_text_block_type = ex.type,
                            !.output_tokens = @ + (Len(ex.content) \div 4)],
                  out |-> acc.out \o closing \o opening
                            \o <<ContentBlockDelta(ex.content, idx, dt)>>]
        ELSE acc

ProcessText(acc, delta, preserve) ==
    LET ex == ExtractContentFromDelta(delta, preserve)
        st == acc.st
    IN  IF ex.content # NoText /\ ex.type # ""
        THEN LET switch == st.current_text_block_type # ex.type
                 closing == IF switch /\ st.current_text_block_type # "none"
                            THEN <<ContentBlockStop(st.current_text_block_index)>>
                            ELSE <<>>
                 opening == IF switch
                            THEN <<ContentBlockStart(st.block_index, ex.type)>>
                            ELSE <<>>
                 idx == IF switch THEN st.block_index ELSE st.current_text_block_index
                 dt == IF ex.type = "thinking" THEN "thinking_delta" ELSE "text_delta"
             IN  [st |-> [st EXCEPT
                            !.current_text_block_index = idx,
                            !.block_index = IF switch THEN @ + 1 ELSE @,
                            !.current_text_block_type = ex.type,
                            !.output_tokens = @ + (Len(ex.content) \div 4)],
                  out |-> acc.out \o closing \o opening
                            \o <<ContentBlockDelta(ex.content, idx, dt)>>]
        ELSE acc

\* One element tc of delta["tool_calls"].
ProcessToolCallAlwaysOpens(acc, tc) ==
    LET st == acc.st
        id == IF tc.id.src = "none" THEN SynthId(st.block_index) ELSE tc.id
    IN  [st |-> [st EXCEPT
                    !.block_index = @ + 1,
                    !.tool_call_block_map =
                        (tc.index :> [block_index |-> st.block_index,
                                      id |-> id, name |-> tc.name]) @@ @,
                    !.current_tc_index = tc.index],
         out |-> acc.out \o <<ToolUseBlockStart(st.block_index, id, tc.name)>>
                    \o (IF tc.args # NoText
                        THEN <<InputJsonDelta(tc.args, st.block_index)>> ELSE <<>>)]

ProcessToolCall(acc, tc) ==
    LET st == acc.st
        known == tc.index \in DOMAIN st.tool_call_block_map
        closeText == IF ~known /\ st.current_text_block_type # "none"
                     THEN <<ContentBlockStop(st.current_text_block_index)>>
                     ELSE <<>>
        closeTool == IF /\ ~known
                        /\ st.current_tc_index >= 0
                        /\ st.current_tc_index \in DOMAIN st.tool_call_block_map
                     THEN <<ContentBlockStop(
                              st.tool_call_block_map[st.current_tc_index].block_index)>>
                     ELSE <<>>
        id == IF tc.id.src = "none" THEN SynthId(st.block_index) ELSE tc.id
        st1 == IF known THEN st
               ELSE [st EXCEPT
                        !.current_text_block_type = "none",
                        !.block_index = @ + 1,
                        !.tool_call_block_map =
                            (tc.index :> [block_index |-> st.block_index,
                                          id |-> id, name |-> tc.name]) @@ @,
                        !.current_tc_index = tc.index]
        opening == IF known THEN <<>>
                   ELSE <<ToolUseBlockStart(st.block_index, id, tc.name)>>
        args == IF tc.args # NoText
                THEN <<InputJsonDelta(tc.args,
                                      st1.tool_call_block_map[tc.index].block_index)>>
                ELSE <<>>
    IN  [st |-> st1, out |-> acc.out \o closeText \o closeTool \o opening \o args]

RECURSIVE ProcessToolCalls(_, _)
ProcessToolCalls(acc, tcs) ==
    IF tcs = <<>> THEN acc
    ELSE ProcessToolCalls(ProcessToolCall(acc, Head(tcs)), Tail(tcs))

\* The finish_reason part: stop_reason keeps its value for any other reason.
MapFinishReasonPassthrough(reason, finish) ==
    IF finish = "null" THEN reason ELSE finish
MapFinishReason(reason, finish) ==
    IF finish = "tool_calls" THEN "tool_use"
    ELSE IF finish = "stop" THEN "end_turn"
    ELSE IF finish = "length" THEN "max_tokens"
    ELSE reason

ProcessParsedChunk(acc, parsed, preserve) ==
    IF ~parsed.choices THEN acc
    ELSE LET a1 == ProcessText(acc, parsed, preserve)
             a2 == ProcessToolCalls(a1, parsed.tools)
         IN  [a2 EXCEPT !.st.stop_reason = MapFinishReason(@, parsed.finish)]

\* generate_anthropic_stream_with_lock on one chunk of stream_gen.
AnthropicOnChunk(acc, chunk, preserve) ==
    IF ParsesToChunk(chunk) THEN ProcessParsedChunk(acc, chunk, preserve) ELSE acc

\* The end of generate_anthropic_stream_with_lock: close the open text block,
\* close the open tool block, message_delta, message_stop.
AnthropicFinishNoClose(acc) ==
    [acc EXCEPT !.out = @ \o <<MessageDelta(acc.st.stop_reason, acc.st.output_tokens),
                               MessageStop>>]
AnthropicFinish(acc) ==
    LET st == acc.st
        closeText == IF st.current_text_block_type # "none"
                     THEN <<ContentBlockStop(st.current_text_block_index)>>
                     ELSE <<>>
        closeTool == IF /\ st.current_tc_index >= 0
                        /\ st.current_tc_index \in DOMAIN st.tool_call_block_map
                     THEN <<ContentBlockStop(
                              st.tool_call_block_map[st.current_tc_index].block_index)>>
                     ELSE <<>>
    IN  [acc EXCEPT !.out = @ \o closeText \o closeTool
                            \o <<MessageDelta(st.stop_reason, st.output_tokens),
                                 MessageStop>>]

\* The end of generate_with_lock: [DONE] after a stream that had chunks and
\* did not raise; the fallback chunk and [DONE] after one that had none.
CompletionsFinish(out, count, raised) ==
    out \o (IF ~raised /\ NeedsDone(count) THEN <<DoneChunk>> ELSE <<>>)
        \o (IF NeedsFallback(count) THEN <<FallbackChunk, DoneChunk>> ELSE <<>>)

\* The chunk stream_generator yields when upstream answers 200 with a body
\* that is no event stream: one chunk carrying "[API Error] ...", then [DONE].
ErrorChunk == JsonLine(TRUE, <<"E">>, NoText, <<>>, "stop")

Endpoints == {"messages", "completions"}

StreamInit ==
    /\ s_endpoint \in Endpoints
    /\ s_preserve \in BOOLEAN
    /\ s_pc = "streaming"
    /\ s_input = <<>>
    /\ s_events = IF s_endpoint = "messages" THEN <<MessageStart>> ELSE <<>>
    /\ s_state = InitialStreamState
    /\ s_count = 0

\* The events and state after the generator of the endpoint took the chunks cs.
RECURSIVE Feed(_, _, _)
Feed(acc, cs, preserve) ==
    IF cs = <<>> THEN acc
    ELSE Feed(AnthropicOnChunk(acc, Head(cs), preserve), Tail(cs), preserve)

RECURSIVE PassAll(_)
PassAll(cs) == IF cs = <<>> THEN <<>> ELSE <<PassedChunk(Head(cs))>> \o PassAll(Tail(cs))

TakeChunks(cs) ==
    IF s_endpoint = "messages"
    THEN LET a == Feed([st |-> s_state, out |-> s_events], cs, s_preserve)
         IN  /\ s_state' = a.st
             /\ s_events' = a.out
             /\ UNCHANGED s_count
    ELSE /\ s_events' = s_events \o PassAll(cs)
         /\ s_count' = s_count + Len(cs)
         /\ UNCHANGED s_state

\* Upstream sends one more line; stream_generator yields its chunk and the
\* generator of the endpoint yields what it makes of it.
UpstreamLine ==
    /\ s_pc = "streaming"
    /\ Len(s_input) < MaxLines
    /\ \E line \in UpstreamLines :
        /\ s_input' = Append(s_input, line)
        /\ TakeChunks(<<ProxyChunk(line, s_preserve)>>)
    /\ UNCHANGED <<s_endpoint, s_preserve, s_pc>>

\* The upstream body ends: stream_generator is exhausted.
StreamEnd ==
    /\ s_pc = "streaming"
    /\ s_pc' = "finished"
    /\ IF s_endpoint = "messages"
       THEN s_events' = AnthropicFinish([st |-> s_state, out |-> s_events]).out
       ELSE s_events' = CompletionsFinish(s_events, s_count, FALSE)
    /\ UNCHANGED <<s_endpoint, s_preserve, s_input, s_state, s_count>>

\* stream_generator raises (non-2xx status, transport error). The messages
\* generator lets the exception through; generate_with_lock logs it and runs
\* its finally block.
StreamRaises ==
    /\ s_pc = "streaming"
    /\ IF s_endpoint = "messages"
       THEN /\ s_pc' = "aborted"
            /\ UNCHANGED s_events
       ELSE /\ s_pc' = "finished"
            /\ s_events' = CompletionsFinish(s_events, s_count, TRUE)
    /\ s_input' = Append(s_input, OtherLine("raise"))
    /\ UNCHANGED <<s_endpoint, s_preserve, s_state, s_count>>

\* Upstream answers 200 with a body that is no event stream: stream_generator
\* yields the error chunk and [DONE] and returns.
NonSseResponse ==
    /\ s_pc = "streaming"
    /\ s_input = <<>>
    /\ s_input' = <<OtherLine("nonsse")>>
    /\ s_pc' = "finished"
    /\ LET cs == <<ErrorChunk, OtherLine("done")>>
       IN  IF s_endpoint = "messages"
           THEN LET a == AnthropicFinish(
                            Feed([st |-> s_state, out |-> s_events], cs, s_preserve))
                IN  /\ s_state' = a.st
                    /\ s_events' = a.out
                    /\ UNCHANGED s_count
           ELSE /\ s_count' = s_count + Len(cs)
                /\ s_events' = CompletionsFinish(s_events \o PassAll(cs),
                                                 s_count + Len(cs), FALSE)
                /\ UNCHANGED s_state
    /\ UNCHANGED <<s_endpoint, s_preserve>>

(***************************************************************************)
(* Claims about the stream, checked under SpecStream.                      *)
(***************************************************************************)
EventIndices == 1..Len(s_events)
Starts == {i \in EventIndices : s_events[i].type = "content_block_start"}
Stops == {i \in EventIndices : s_events[i].type = "content_block_stop"}
ToolStarts == {i \in Starts : s_events[i].sub = "tool_use"}
JsonDeltas == {i \in EventIndices : s_events[i].sub = "input_json_delta"}
MessagesFinished == s_endpoint = "messages" /\ s_pc = "finished"

\* The tool-call deltas upstream sent, in order.
RECURSIVE ToolDeltasOf(_)
ToolDeltasOf(input) ==
    IF input = <<>> THEN <<>>
    ELSE (IF Head(input).kind = "json" /\ Head(input).choices
          THEN Head(input).tools ELSE <<>>) \o ToolDeltasOf(Tail(input))

\* C4: on the messages endpoint, when the stream ends, as many
\* content_block_stop events as content_block_start events were emitted, and
\* every started block index was stopped exactly once.
C4_StartsMatchStops ==
    MessagesFinished =>
        /\ Cardinality(Starts) = Cardinality(Stops)
        /\ \A i \in Starts :
            Cardinality({j \in Stops : s_events[j].index = s_events[i].index}) = 1
        /\ \A j \in Stops : \E i \in Starts : s_events[i].index = s_events[j].index

\* A finished stream that opened a thinking, a text and a tool_use block.
C4_Witness ==
    /\ MessagesFinished
    /\ \A t \in {"thinking", "text", "tool_use"} :
        \E i \in Starts : s_events[i].sub = t

\* C5: the indices of successive content_block_start events strictly
\* increase, whatever the order of text, reasoning and tool-call deltas.
C5_BlockIndicesStrictlyIncrease ==
    \A i, j \in Starts : i < j => s_events[i].index < s_events[j].index

\* A tool_use block opened before a text block, and a third block after them.
C5_Witness ==
    /\ Cardinality(Starts) >= 3
    /\ \E i, j \in Starts :
        i < j /\ s_events[i].sub = "tool_use" /\ s_events[j].sub = "text"

\* C6: each upstream tool-call index gets exactly one tool_use
\* content_block_start, at its first delta, with the upstream id or a
\* synthesized one; every later argument delta of that index is an
\* input_json_delta on the block index set at the first delta and opens no
\* further block.
C6_OneToolBlockPerUpstreamIndex ==
    s_endpoint = "messages" =>
        LET tds == ToolDeltasOf(s_input)
            seen == {tds[n].index : n \in 1..Len(tds)}
            First(k) == CHOOSE n \in 1..Len(tds) :
                            /\ tds[n].index = k
                            /\ \A m \in 1..(n - 1) : tds[m].index # k
            map == s_state.tool_call_block_map
        IN  /\ DOMAIN map = seen
            /\ Cardinality(ToolStarts) = Cardinality(seen)
            /\ \A k \in seen :
                /\ Cardinality({i \in ToolStarts :
                                  s_events[i].index = map[k].block_index}) = 1
                /\ \A i \in ToolStarts :
                    s_events[i].index = map[k].block_index =>
                        /\ s_events[i].id = map[k].id
                        /\ IF tds[First(k)].id.src = "none"
                           THEN s_events[i].id.src = "synth"
                           ELSE s_events[i].id = tds[First(k)].id
                /\ Cardinality({i \in JsonDeltas :
                                  s_events[i].index = map[k].block_index})
                     = Cardinality({n \in 1..Len(tds) :
                                      tds[n].index = k /\ tds[n].args # NoText})
            /\ \A i \in JsonDeltas :
                \E k \in seen : s_events[i].index = map[k].block_index

\* Index 0 opened without an upstream id, index 1 opened after it, and a later
\* argument delta for index 0.
C6_Witness ==
    /\ s_endpoint = "messages"
    /\ Cardinality(ToolStarts) = 2
    /\ \E i \in ToolStarts : s_events[i].id.src = "synth"
    /\ LET tds == ToolDeltasOf(s_input)
       IN  \E l, m, n \in 1..Len(tds) :
              /\ l < m /\ m < n
              /\ tds[l].index = 0 /\ tds[m].index = 1
              /\ tds[n].index = 0 /\ tds[n].args # NoText

\* C7: a stream for which upstream delivers no content chunk still yields a
\* content block and a terminal event: on the messages endpoint a
\* content_block_start / content_block_stop pair before message_delta and
\* message_stop, on the completions endpoint a content-bearing chunk before
\* [DONE].
C7_EmptyUpstreamStillYieldsContent ==
    (s_pc = "finished" /\ \A n \in 1..Len(s_input) : ~HasContent(s_input[n]))
        => IF s_endpoint = "messages"
           THEN \E i \in Starts, j \in Stops, k, l \in EventIndices :
                    /\ i < j /\ j < k /\ k < l
                    /\ s_events[j].index = s_events[i].index
                    /\ s_events[k].type = "message_delta"
                    /\ s_events[l].type = "message_stop"
           ELSE \E i, j \in EventIndices :
                    /\ i < j
                    /\ s_events[i].type = "data" /\ s_events[i].text # NoText
                    /\ s_events[j].type = "done"

\* The finish reason upstream gave last, among those the endpoint maps.
RECURSIVE LastFinish(_)
LastFinish(input) ==
    IF input = <<>> THEN "null"
    ELSE LET l == input[Len(input)]
         IN  IF l.kind = "json" /\ l.choices /\ l.finish \in {"stop", "length", "tool_calls"}
             THEN l.finish
             ELSE LastFinish(SubSeq(input, 1, Len(input) - 1))

\* C8: when the upstream stream ends, by [DONE] or by the connection closing,
\* the messages-endpoint stream has closed every open block, then emits
\* exactly one message_delta with the stop reason mapped from the upstream
\* finish reason (stop: end_turn, length: max_tokens, tool_calls: tool_use),
\* then message_stop as its last event. The stream ends when stream_generator
\* is exhausted; a transport exception aborts the response instead (s_pc =
\* "aborted") and is no stream end in this sense.
C8_TerminalEventsInOrder ==
    MessagesFinished =>
        LET n == Len(s_events)
            f == LastFinish(s_input)
        IN  /\ n >= 3
            /\ s_events[n].type = "message_stop"
            /\ s_events[n - 1].type = "message_delta"
            /\ \A i \in 1..(n - 2) :
                s_events[i].type \notin {"message_delta", "message_stop"}
            /\ \A i \in Starts : \E j \in Stops :
                i < j /\ j < n - 1 /\ s_events[j].index = s_events[i].index
            /\ s_events[n - 1].sub =
                 (CASE f = "stop" -> "end_turn"
                    [] f = "length" -> "max_tokens"
                    [] f = "tool_calls" -> "tool_use"
                    [] OTHER -> "end_turn")

\* A stream ended after an explicit [DONE], with a block still open at that
\* point and the finish reason tool_calls.
C8_Witness ==
    /\ MessagesFinished
    /\ Len(s_input) >= 2
    /\ s_input[Len(s_input)].kind = "done"
    /\ Starts # {}
    /\ s_events[Len(s_events) - 1].sub = "tool_use"

\* The example stream: one reasoning-only chunk, then one content chunk, taken
\* by the messages endpoint.
ReasoningOnlyLine == JsonLine(TRUE, NoText, TextR, <<>>, "null")
ContentOnlyLine == JsonLine(TRUE, TextA, NoText, <<>>, "null")
ExampleTaken ==
    /\ s_endpoint = "messages"
    /\ s_input = <<ReasoningOnlyLine, ContentOnlyLine>>
BlockDeltas == {i \in EventIndices : s_events[i].type = "content_block_delta"}

\* What the example yields under the preserve policy: two blocks with
\* different indices, a thinking block with the reasoning text and then a
\* text block with the content text.
PreservedBlocks ==
    /\ Cardinality(Starts) = 2
    /\ Cardinality(BlockDeltas) = 2
    /\ \A i, j \in Starts : i < j =>
          /\ s_events[i].sub = "thinking"
          /\ s_events[j].sub = "text"
          /\ s_events[i].index # s_events[j].index
          /\ \E k \in Stops : i < k /\ k < j /\ s_events[k].index = s_events[i].index
    /\ \A i, j \in BlockDeltas : i < j =>
          /\ s_events[i] = ContentBlockDelta(TextR, s_events[i].index, "thinking_delta")
          /\ s_events[j] = ContentBlockDelta(TextA, s_events[j].index, "text_delta")

ToolCall(id, name, args) == [id |-> id, name |-> name, args |-> args]
BadArgs == <<"{">>

UpstreamResponse(ch, c, r, t, f) ==
    [choices |-> ch, content |-> c, reasoning |-> r, tool_calls |-> t, finish |-> f]

\* proxy._normalize_response on the message of a choice.
NormalizeResponse(result, preserve) ==
    IF ~result.choices THEN result
    ELSE IF result.content = NoText /\ result.reasoning # NoText
    THEN IF preserve THEN [result EXCEPT !.content = result.reasoning]
         ELSE [result EXCEPT !.content = result.reasoning, !.reasoning = NoText]
    ELSE IF result.content # NoText /\ result.reasoning # NoText
    THEN IF preserve THEN result ELSE [result EXCEPT !.reasoning = NoText]
    ELSE result

\* The placeholder texts of openai_to_anthropic_response.
NoChoicesText == <<"n", "o", "c">>
EmptyContentText == <<"n", "u", "l">>

TextBlock(text) == [type |-> "text", text |-> text, id |-> NoId, name |-> ""]
\* json.loads(arguments or "{}"), {"_raw": arguments} when that fails; the id
\* of the call, a fresh toolu_ id when it has none.
ToolUseBlock(tc, n) ==
    [type |-> "tool_use",
     text |-> IF tc.args = NoText THEN ArgsJ
              ELSE IF tc.args = BadArgs THEN <<"_raw">> \o tc.args
              ELSE tc.args,
     id |-> IF tc.id = NoId THEN SynthId(n) ELSE tc.id,
     name |-> tc.name]

RECURSIVE ToolUseBlocks(_, _)
ToolUseBlocks(tcs, n) ==
    IF tcs = <<>> THEN <<>>
    ELSE <<ToolUseBlock(Head(tcs), n)>> \o ToolUseBlocks(Tail(tcs), n + 1)

\* app.openai_to_anthropic_response: the content blocks and the stop reason.
OpenAIToAnthropicResponse(result) ==
    IF ~result.choices
    THEN [content |-> <<TextBlock(NoChoicesText)>>, stop_reason |-> "end_turn"]
    ELSE LET content_text == IF result.content # NoText THEN result.content
                             ELSE result.reasoning
             text == IF content_text # NoText THEN <<TextBlock(content_text)>> ELSE <<>>
             blocks == text \o ToolUseBlocks(result.tool_calls, Len(text))
         IN  [content |-> IF blocks = <<>> THEN <<TextBlock(EmptyContentText)>>
                          ELSE blocks,
              stop_reason |-> CASE result.finish = "stop" -> "end_turn"
                                [] result.finish = "length" -> "max_tokens"
                                [] result.finish = "tool_calls" -> "tool_use"
                                [] OTHER -> "end_turn"]

\* The text of one part over the content blocks of a messages response.
RECURSIVE BlocksText(_, _)
BlocksText(blocks, type) ==
    IF blocks = <<>> THEN NoText
    ELSE (IF Head(blocks).type = type THEN Head(blocks).text ELSE NoText)
         \o BlocksText(Tail(blocks), type)

\* The answer and the reasoning a caller receives: two texts.
Parts(answer, reasoning) == [answer |-> answer, reasoning |-> reasoning]

\* What the non-streaming path delivers for an upstream message with the
\* answer text a and the reasoning text r.
NonStreamingParts(endpoint, preserve, a, r) ==
    LET result == NormalizeResponse(UpstreamResponse(TRUE, a, r, <<>>, "stop"), preserve)
    IN  IF endpoint = "completions"
        THEN Parts(result.content, result.reasoning)
        ELSE LET blocks == OpenAIToAnthropicResponse(result).content
             IN  Parts(BlocksText(blocks, "text"), BlocksText(blocks, "thinking"))

\* The answer text and the reasoning text upstream sent over the whole stream.
RECURSIVE UpstreamText(_, _)
UpstreamText(input, part) ==
    IF input = <<>> THEN NoText
    ELSE LET l == Head(input)
             t == IF l.kind = "json" /\ l.choices
                  THEN IF part = "answer" THEN l.content ELSE l.reasoning
                  ELSE NoText
         IN  t \o UpstreamText(Tail(input), part)

\* The same over the chunks proxy.stream_generator yields.
RECURSIVE PassedText(_, _, _)
PassedText(input, preserve, part) ==
    IF input = <<>> THEN NoText
    ELSE LET l == ProxyChunk(Head(input), preserve)
             t == IF l.kind = "json" /\ l.choices
                  THEN IF part = "answer" THEN l.content ELSE l.reasoning
                  ELSE NoText
         IN  t \o PassedText(Tail(input), preserve, part)

\* The text of the deltas of one kind in the events of the messages stream.
RECURSIVE DeltasText(_, _)
DeltasText(events, sub) ==
    IF events = <<>> THEN NoText
    ELSE (IF Head(events).type = "content_block_delta" /\ Head(events).sub = sub
          THEN Head(events).text ELSE NoText)
         \o DeltasText(Tail(events), sub)

\* What the streaming path delivered when the stream has ended.
StreamingParts ==
    IF s_endpoint = "completions"
    THEN Parts(PassedText(s_input, s_preserve, "answer"),
               PassedText(s_input, s_preserve, "reasoning"))
    ELSE Parts(DeltasText(s_events, "text_delta"), DeltasText(s_events, "thinking_delta"))

\* The upstream stream ended by itself and carried an answer or reasoning.
StreamCompleted ==
    /\ s_pc = "finished"
    /\ \A n \in 1..Len(s_input) : s_input[n].kind \notin {"raise", "nonsse"}
    /\ (UpstreamText(s_input, "answer") # NoText
            \/ UpstreamText(s_input, "reasoning") # NoText)

\* C21: for the same upstream reasoning and answer content and the same
\* policy, the streaming path and the non-streaming path deliver the same
\* parts: under merge the reasoning is folded into the answer only when the
\* answer is empty and is dropped otherwise, under preserve both are delivered
\* as distinct parts.
C21_SamePartsOnBothPaths ==
    StreamCompleted =>
        LET a == UpstreamText(s_input, "answer")
            r == UpstreamText(s_input, "reasoning")
            expected == IF s_preserve THEN Parts(a, r)
                        ELSE Parts(IF a = NoText THEN r ELSE a, NoText)
        IN  /\ StreamingParts = NonStreamingParts(s_endpoint, s_preserve, a, r)
            /\ StreamingParts = expected

\* The number of text and thinking characters emitted in the stream.
EmittedCharacters ==
    Len(DeltasText(s_events, "text_delta")) + Len(DeltasText(s_events, "thinking_delta"))

\* The output-token count of the terminal message_delta.
ReportedOutputTokens == s_events[Len(s_events) - 1].index

\* C32: the output-token count carried by the terminal message_delta of a
\* messages-endpoint stream equals the total number of text and thinking
\* characters emitted in that stream divided by 4 (integer division), however
\* those characters were split across upstream chunks.
C32_OutputTokensAreCharactersByFour ==
    MessagesFinished => ReportedOutputTokens = EmittedCharacters \div 4

\* The events before place i that stop the block started at place j.
StoppedBefore(j, i) ==
    \E k \in Stops : j < k /\ k < i /\ s_events[k].index = s_events[j].index

\* C34: in a messages-endpoint stream at most one content block is open at
\* any time: whenever a content_block_start is emitted, every block started
\* before it has received its content_block_stop.
C34_AtMostOneBlockOpen ==
    s_endpoint = "messages" =>
        \A i, j \in Starts : j < i => StoppedBefore(j, i)

\* What holds of text and thinking blocks alone, and of tool blocks alone.
OneOpenBlockOfAKind ==
    s_endpoint = "messages" =>
        \A i, j \in Starts :
            (j < i /\ (i \in ToolStarts <=> j \in ToolStarts)) => StoppedBefore(j, i)

\* C35: in a messages-endpoint stream no content_block_delta is emitted for
\* a block index after that block's content_block_stop, argument deltas for
\* an earlier tool index that arrive after a later tool index has started
\* included.
C35_NoDeltaAfterStop ==
    s_endpoint = "messages" =>
        \A d \in BlockDeltas, k \in Stops :
            s_events[k].index = s_events[d].index => d < k

\* What holds of the text and thinking deltas alone.
NoTextDeltaAfterStop ==
    s_endpoint = "messages" =>
        \A d \in BlockDeltas \ JsonDeltas, k \in Stops :
            s_events[k].index = s_events[d].index => d < k

(***************************************************************************)
(*                       THE REQUEST TRANSLATION                           *)
(*                                                                         *)
(* A messages-endpoint message has a role and a content that is a string   *)
(* or a list of blocks. A block is a record like the blocks of a response: *)
(* text holds the text of a text or thinking block, the data of an image,  *)
(* the JSON text of the input of a tool_use, the content of a tool_result; *)
(* id holds the id of a tool_use and the tool_use_id of a tool_result;     *)
(* name holds the name of a tool_use and the source type of an image.      *)
(***************************************************************************)
MaxMessages == 2

ThinkingBlock(text) == [type |-> "thinking", text |-> text, id |-> NoId, name |-> ""]
ImageBlock(source, data) == [type |-> "image", text |-> data, id |-> NoId, name |-> source]
ToolUse(id, name, input) == [type |-> "tool_use", text |-> input, id |-> id, name |-> name]
ToolResult(id, content) == [type |-> "tool_result", text |-> content, id |-> id, name |-> ""]

\* {"role": ..., "content": "..."} and {"role": ..., "content": [...]}.
StringMessage(role, text) == [role |-> role, str |-> TRUE, text |-> text, blocks |-> <<>>]
BlockMessage(role, blocks) == [role |-> role, str |-> FALSE, text |-> NoText, blocks |-> blocks]

\* A message of the upstream request. kind tells what content is: "null"
\* (None), "text" (a string) or "parts" (the multimodal list).
OpenAIMessage(role, k, text, parts, tool_calls, tool_call_id) ==
    [role |-> role, kind |-> k, text |-> text, parts |-> parts,
     tool_calls |-> tool_calls, tool_call_id |-> tool_call_id]

\* "\n".join(texts).
RECURSIVE JoinLines(_)
JoinLines(texts) ==
    IF texts = <<>> THEN NoText
    ELSE IF Len(texts) = 1 THEN texts[1]
    ELSE texts[1] \o <<"\n">> \o JoinLines(Tail(texts))

\* not text.strip()
IsBlank(text) == \A i \in 1..Len(text) : text[i] \in {" ", "\n"}

OfType(blocks, type) == SelectSeq(blocks, LAMBDA b : b.type = type)
NotOfType(blocks, type) == SelectSeq(blocks, LAMBDA b : b.type # type)

RECURSIVE TextsOf(_)
TextsOf(blocks) ==
    IF blocks = <<>> THEN <<>> ELSE <<Head(blocks).text>> \o TextsOf(Tail(blocks))

\* f"call_{uuid.uuid4().hex[:24]}": a fresh id, told apart by its position.
CallId(m, n) == [src |-> "call", n |-> 10 * m + n]

\* The tool_calls of an assistant message: one per tool_use block, in order.
RECURSIVE ToolCallsOf(_, _, _)
ToolCallsOf(blocks, m, n) ==
    IF blocks = <<>> THEN <<>>
    ELSE LET b == Head(blocks)
         IN  <<ToolCall(IF b.id = NoId THEN CallId(m, n) ELSE b.id, b.name, b.text)>>
             \o ToolCallsOf(Tail(blocks), m, n + 1)

\* The tool-role messages of a user message: one per tool_result block.
ToolMessagesOfUnpaired(blocks) ==
    [i \in 1..Len(blocks) |->
        OpenAIMessage("tool", "text", blocks[i].text, <<>>, <<>>, NoId)]
RECURSIVE ToolMessagesOf(_)
ToolMessagesOf(blocks) ==
    IF blocks = <<>> THEN <<>>
    ELSE <<OpenAIMessage("tool", "text", Head(blocks).text, <<>>, <<>>, Head(blocks).id)>>
         \o ToolMessagesOf(Tail(blocks))

\* vision.detect_image_content then vision.convert_to_openai_format: one
\* image_url part per image block, a data URL for a base64 source.
RECURSIVE ImageParts(_)
ImageParts(blocks) ==
    IF blocks = <<>> THEN <<>>
    ELSE LET b == Head(blocks)
         IN  <<[type |-> "image_url",
                text |-> IF b.name = "base64" THEN <<"data:">> \o b.text ELSE b.text]>>
             \o ImageParts(Tail(blocks))

\* anthropic_to_openai_request, step 3, for the message at position m.
TranslateMessage(msg, m) ==
    IF msg.str
    THEN <<OpenAIMessage(msg.role, "text", msg.text, <<>>, <<>>, NoId)>>
    ELSE IF msg.role = "assistant"
    THEN LET text_content == JoinLines(TextsOf(OfType(msg.blocks, "text")))
         IN  <<OpenAIMessage("assistant",
                             IF text_content # NoText THEN "text" ELSE "null",
                             text_content, <<>>,
                             ToolCallsOf(OfType(msg.blocks, "tool_use"), m, 0), NoId)>>
    ELSE LET tool_result_blocks == OfType(msg.blocks, "tool_result")
             remaining == NotOfType(msg.blocks, "tool_result")
             images == OfType(remaining, "image")
             combined == JoinLines(TextsOf(OfType(remaining, "text")))
             rest ==
                 IF remaining = <<>> THEN <<>>
                 ELSE IF images # <<>>
                 THEN <<OpenAIMessage("user", "parts", NoText,
                            (IF ~IsBlank(combined)
                             THEN <<[type |-> "text", text |-> combined]>> ELSE <<>>)
                            \o ImageParts(images), <<>>, NoId)>>
                 ELSE IF combined # NoText \/ tool_result_blocks = <<>>
                 THEN <<OpenAIMessage("user", "text", combined, <<>>, <<>>, NoId)>>
                 ELSE <<>>
         IN  ToolMessagesOf(tool_result_blocks) \o rest

RECURSIVE TranslateMessages(_, _)
TranslateMessages(msgs, m) ==
    IF msgs = <<>> THEN <<>>
    ELSE TranslateMessage(Head(msgs), m) \o TranslateMessages(Tail(msgs), m + 1)

\* The allow-list of get_mapped_model (known_iflow_models); before the
\* repair the code marks "L-02" it lacked kimi-k2-0905.
DefaultIFlowModel == "glm-5"
KnownIFlowModelsBeforeL02 ==
    {"glm-4.6", "glm-4.7", "glm-5", "iFlow-ROME-30BA3B", "deepseek-v3.2-chat",
     "qwen3-coder-plus", "kimi-k2", "kimi-k2-thinking", "kimi-k2.5",
     "minimax-m2.5", "glm-4v", "glm-4v-plus", "glm-4v-flash", "glm-4.5v", "glm-4.6v",
     "moonshot-v1-8k-vision", "moonshot-v1-32k-vision", "moonshot-v1-128k-vision",
     "qwen-vl-plus", "qwen-vl-max", "qwen2.5-vl", "qwen3-vl"}
KnownIFlowModels ==
    {"glm-4.6", "glm-4.7", "glm-5", "iFlow-ROME-30BA3B", "deepseek-v3.2-chat",
     "qwen3-coder-plus", "kimi-k2", "kimi-k2-thinking", "kimi-k2.5", "kimi-k2-0905",
     "minimax-m2.5", "glm-4v", "glm-4v-plus", "glm-4v-flash", "glm-4.5v", "glm-4.6v",
     "moonshot-v1-8k-vision", "moonshot-v1-32k-vision", "moonshot-v1-128k-vision",
     "qwen-vl-plus", "qwen-vl-max", "qwen2.5-vl", "qwen3-vl"}
GetMappedModelPassthrough(model) == model
GetMappedModel(model) ==
    IF model \in KnownIFlowModels THEN model ELSE DefaultIFlowModel

\* proxy.get_models: the ids of the catalogue the models-listing endpoint
\* returns, in its order.
GetModels ==
    <<"glm-4.6", "glm-4.7", "glm-5", "iFlow-ROME-30BA3B", "deepseek-v3.2-chat",
      "qwen3-coder-plus", "kimi-k2", "kimi-k2-thinking", "kimi-k2.5", "kimi-k2-0905",
      "minimax-m2.5", "qwen-vl-max">>
ListedModelIds == {GetModels[i] : i \in 1..Len(GetModels)}

\* anthropic_to_openai_request: the model and the messages of the upstream
\* request (no system prompt).
AnthropicToOpenAIRequest(model, msgs) ==
    [model |-> GetMappedModel(model), messages |-> TranslateMessages(msgs, 1)]

\* The messages a conversation is made of: string and block contents of
\* both roles, tool results with and without other content, images, thinking.
Hi == <<"h", "i">>
Png == <<"p", "n", "g">>
SampleMessages ==
    { StringMessage("user", Hi),
      StringMessage("assistant", TextA),
      BlockMessage("user", <<TextBlock(Hi)>>),
      BlockMessage("user", <<ToolResult(UpstreamId(0), TextA)>>),
      BlockMessage("user", <<TextBlock(Hi), ToolResult(UpstreamId(0), TextA),
                             ToolResult(UpstreamId(1), TextR)>>),
      BlockMessage("user", <<ToolResult(UpstreamId(1), NoText),
                             ImageBlock("base64", Png)>>),
      BlockMessage("user", <<ImageBlock("url", Png), TextBlock(Hi)>>),
      BlockMessage("assistant", <<TextBlock(TextA)>>),
      BlockMessage("assistant", <<TextBlock(TextA), ToolUse(UpstreamId(0), "f", ArgsJ)>>),
      BlockMessage("assistant", <<ToolUse(UpstreamId(0), "f", ArgsJ),
                                  ToolUse(UpstreamId(1), "g", ArgsJ)>>),
      BlockMessage("assistant", <<ThinkingBlock(TextR), TextBlock(TextA)>>) }

\* The translation message by message: the upstream messages made of each.
RECURSIVE Segments(_, _)
Segments(msgs, m) ==
    IF msgs = <<>> THEN <<>>
    ELSE <<TranslateMessage(Head(msgs), m)>> \o Segments(Tail(msgs), m + 1)

\* An assistant message of the upstream dialect taken back to the messages
\* dialect, the way a response is: openai_to_anthropic_response on a result
\* whose first choice holds the message.
BackToBlocks(msg) ==
    OpenAIToAnthropicResponse(
        UpstreamResponse(TRUE, msg.text, NoText, msg.tool_calls, "stop")).content

RECURSIVE BackSegments(_)
BackSegments(segs) ==
    IF segs = <<>> THEN <<>>
    ELSE LET seg == Head(segs)
         IN  <<IF Len(seg) = 1 /\ seg[1].role = "assistant"
               THEN BackToBlocks(seg[1]) ELSE <<>>>>
             \o BackSegments(Tail(segs))

TranslateInit ==
    /\ t_pc = "idle"
    /\ t_conv = <<>>
    /\ t_out = <<>>
    /\ t_back = <<>>
TranslateIdle == TranslateInit

\* The caller's conversation grows by one message.
AddMessage ==
    /\ t_pc = "idle"
    /\ Len(t_conv) < MaxMessages
    /\ \E msg \in SampleMessages : t_conv' = Append(t_conv, msg)
    /\ UNCHANGED <<t_pc, t_out, t_back>>

\* anthropic_to_openai_request on the conversation.
Translate ==
    /\ t_pc = "idle"
    /\ t_conv # <<>>
    /\ t_pc' = "translated"
    /\ t_out' = Segments(t_conv, 1)
    /\ UNCHANGED <<t_conv, t_back>>

\* The assistant messages of the upstream conversation are taken back to the
\* messages dialect.
TranslateBack ==
    /\ t_pc = "translated"
    /\ t_pc' = "returned"
    /\ t_back' = BackSegments(t_out)
    /\ UNCHANGED <<t_conv, t_out>>

Translated == t_pc \in {"translated", "returned"}
Positions == 1..Len(t_conv)
ResultsOf(m) == OfType(t_conv[m].blocks, "tool_result")
ToolUsesOf(m) == OfType(t_conv[m].blocks, "tool_use")

\* C26: translating a messages-endpoint conversation keeps role order and
\* tool pairing: every tool_result block of a user message becomes its own
\* tool-role message, in block order and before the user message holding the
\* remaining content, with tool_call_id equal to the block's tool_use_id;
\* every assistant tool_use block becomes a tool call with the same id; a
\* tool_result whose id matches no earlier tool_use is translated like any
\* other.
C26_ToolPairingKept ==
    Translated =>
        /\ Len(t_out) = Len(t_conv)
        /\ \A m \in Positions :
            LET msg == t_conv[m]
                seg == t_out[m]
            IN  IF msg.str
                THEN Len(seg) = 1 /\ seg[1].role = msg.role
                ELSE IF msg.role = "assistant"
                THEN /\ Len(seg) = 1
                     /\ seg[1].role = "assistant"
                     /\ Len(seg[1].tool_calls) = Len(ToolUsesOf(m))
                     /\ \A i \in 1..Len(ToolUsesOf(m)) :
                           /\ seg[1].tool_calls[i].id = ToolUsesOf(m)[i].id
                           /\ seg[1].tool_calls[i].name = ToolUsesOf(m)[i].name
                ELSE /\ Len(seg) \in {Len(ResultsOf(m)), Len(ResultsOf(m)) + 1}
                     /\ \A i \in 1..Len(seg) :
                           IF i <= Len(ResultsOf(m))
                           THEN /\ seg[i].role = "tool"
                                /\ seg[i].tool_call_id = ResultsOf(m)[i].id
                                /\ seg[i].text = ResultsOf(m)[i].text
                           ELSE seg[i].role = "user"

\* A conversation that begins with a user message holding text and two tool
\* results, none of them answering an earlier tool_use, was translated.
C26_Witness ==
    /\ Translated
    /\ t_conv[1] = BlockMessage("user", <<TextBlock(Hi), ToolResult(UpstreamId(0), TextA),
                                          ToolResult(UpstreamId(1), TextR)>>)
    /\ Len(t_out[1]) = 3
    /\ t_out[1][3].role = "user"

\* The canonical content of a message: its blocks, a string being one text
\* block.
Canonical(msg) == IF msg.str THEN <<TextBlock(msg.text)>> ELSE msg.blocks

\* C27: a conversation taken from the messages dialect to the upstream
\* dialect and back is the conversation it was, for every kind of content
\* part (here: the assistant messages, the ones the code translates back).
C27_RoundTripIsLossless ==
    t_pc = "returned" =>
        \A m \in Positions :
            t_conv[m].role = "assistant" => t_back[m] = Canonical(t_conv[m])

(***************************************************************************)
(*                        THE ENDPOINT ANSWERS                             *)
(*                                                                         *)
(* One chat request from its arrival to its answer: chat_completions_openai*)
(* and messages_anthropic, streaming and not. An answer is the HTTP status,*)
(* the shape of the body (envelope), the error type and message of an      *)
(* error body, and the content of a success body.                          *)
(***************************************************************************)
RequestedModels == ListedModelIds \cup {"claude-x", "gpt-4"}
RequestBodies == {"ok", "badjson", "badutf8", "nomessages"}
Conversations == { <<StringMessage("user", Hi)>>,
                   <<BlockMessage("user", <<TextBlock(Hi)>>)>> }

ChatRequests ==
    [endpoint : Endpoints, stream : BOOLEAN, body : RequestBodies,
     model : RequestedModels, messages : Conversations, preserve : BOOLEAN]

NoChatRequest ==
    [endpoint |-> "none", stream |-> FALSE, body |-> "none", model |-> "",
     messages |-> <<>>, preserve |-> FALSE]
NoUpstreamRequest == [model |-> "", messages |-> <<>>]

\* What upstream answers: 200 with a result (non-streaming) or an event
\* stream, or a non-2xx status whose body is JSON with a "msg" field, JSON
\* without it, or no JSON.
UpstreamResults ==
    { UpstreamResponse(FALSE, NoText, NoText, <<>>, "null"),
      UpstreamResponse(TRUE, NoText, NoText, <<>>, "stop"),
      UpstreamResponse(TRUE, TextA, NoText, <<>>, "stop"),
      UpstreamResponse(TRUE, NoText, TextR, <<>>, "length"),
      UpstreamResponse(TRUE, TextA, TextR, <<>>, "stop"),
      UpstreamResponse(TRUE, NoText, NoText,
                       <<ToolCall(UpstreamId(0), "f", ArgsJ)>>, "tool_calls"),
      UpstreamResponse(TRUE, TextA, NoText,
                       <<ToolCall(NoId, "g", BadArgs)>>, "tool_calls") }
NoResult == UpstreamResponse(FALSE, NoText, NoText, <<>>, "none")
ErrorStatuses == {429, 500}
ErrorBodies == {"msg", "nomsg", "notjson"}
UpstreamAnswers ==
    { [status |-> 200, body |-> "result", result |-> r] : r \in UpstreamResults }
    \cup { [status |-> 200, body |-> "stream", result |-> NoResult] }
    \cup { [status |-> st, body |-> b, result |-> NoResult] :
              st \in ErrorStatuses, b \in ErrorBodies }
NoUpstreamAnswer == [status |-> 0, body |-> "none", result |-> NoResult]

\* The message of an error answer: what it says, and the upstream status it
\* names (0: none). str(e) of the exception raise_for_status raises names the
\* status; the "msg" field of the upstream body is the vendor's message.
Message(what, status) == [what |-> what, status |-> status]
NoMessage == Message("none", 0)
ErrorMessage(up) ==
    IF up.body = "msg" THEN Message("vendor", 0) ELSE Message("exception", up.status)

AnswerOf(status, envelope, type, message, blocks, result) ==
    [status |-> status, envelope |-> envelope, type |-> type, message |-> message,
     blocks |-> blocks, result |-> result]
NoChatAnswer == AnswerOf(0, "none", "", NoMessage, <<>>, NoResult)

\* app.create_error_response.
CreateErrorResponse(status, message, type) ==
    AnswerOf(status, "openai_error", type, message, <<>>, NoResult)
\* The error bodies messages_anthropic builds itself.
AnthropicErrorResponse(status, message, type) ==
    AnswerOf(status, "anthropic_error", type, message, <<>>, NoResult)
\* "raise HTTPException(status_code, detail)": the framework answers with
\* {"detail": detail}.
HttpExceptionResponse(status, message) ==
    AnswerOf(status, "detail", "", message, <<>>, NoResult)

\* The answer to a body that is no JSON (json.JSONDecodeError), that does not
\* decode as UTF-8 (UnicodeDecodeError, taken by "except Exception"), or that
\* has no "messages".
RejectBody(endpoint, body) ==
    IF endpoint = "completions"
    THEN CASE body = "badjson" ->
                CreateErrorResponse(400, Message("invalid_json", 0), "invalid_request_error")
           [] body = "badutf8" ->
                CreateErrorResponse(500, Message("exception", 0), "api_error")
           [] OTHER ->
                CreateErrorResponse(422, Message("missing_messages", 0),
                                    "invalid_request_error")
    ELSE CASE body = "badjson" -> HttpExceptionResponse(400, Message("invalid_json", 0))
           [] body = "badutf8" ->
                AnthropicErrorResponse(500, Message("exception", 0), "api_error")
           [] OTHER ->
                AnthropicErrorResponse(422, Message("missing_messages", 0),
                                       "invalid_request_error")

\* The request chat_completions sends upstream: the body as it came on the
\* completions endpoint, anthropic_to_openai_request(body) on the other.
UpstreamRequestOf(req) ==
    IF req.endpoint = "completions"
    THEN [model |-> req.model, messages |-> req.messages]
    ELSE AnthropicToOpenAIRequest(req.model, req.messages)

\* The success body of messages_anthropic, non-streaming.
MessagesResponseNoPlaceholder(result) ==
    LET text == IF result.content # NoText THEN <<TextBlock(result.content)>> ELSE <<>>
    IN  AnswerOf(200, "message", "", NoMessage,
                 IF result.choices THEN text \o ToolUseBlocks(result.tool_calls, Len(text))
                 ELSE <<>>, NoResult)
MessagesResponse(result) ==
    AnswerOf(200, "message", "", NoMessage, OpenAIToAnthropicResponse(result).content,
             NoResult)

\* The answer to a streaming call: the response has begun with status 200
\* when upstream is asked. An upstream error ends the messages stream after
\* message_start; generate_with_lock logs it and yields the fallback chunk.
StreamAnswer(endpoint, up) ==
    AnswerOf(200, "stream", "",
             IF up.status = 200 THEN Message("events", 0)
             ELSE IF endpoint = "completions" THEN Message("fallback", 0)
             ELSE Message("aborted", 0),
             <<>>, NoResult)

\* The answer to a non-streaming call.
JsonAnswer(req, up) ==
    IF up.status # 200
    THEN IF req.endpoint = "completions"
         THEN CreateErrorResponse(up.status, ErrorMessage(up), "api_error")
         ELSE AnthropicErrorResponse(500, ErrorMessage(up), "api_error")
    ELSE LET result == NormalizeResponse(up.result, req.preserve)
         IN  IF req.endpoint = "completions"
             THEN IF ~result.choices
                  THEN CreateErrorResponse(500, Message("no_choices", 0), "api_error")
                  ELSE AnswerOf(200, "completion", "", NoMessage, <<>>, result)
             ELSE MessagesResponse(result)

AnswerInit ==
    /\ e_pc = "idle"
    /\ e_req = NoChatRequest
    /\ e_permits = 0
    /\ e_sent = NoUpstreamRequest
    /\ e_up = NoUpstreamAnswer
    /\ e_answer = NoChatAnswer
AnswerIdle == AnswerInit

\* The handler reads the body: a bad body is answered at once.
Receive ==
    /\ e_pc = "idle"
    /\ \E req \in ChatRequests :
        /\ e_req' = req
        /\ IF req.body = "ok"
           THEN e_pc' = "wait" /\ UNCHANGED e_answer
           ELSE e_pc' = "done" /\ e_answer' = RejectBody(req.endpoint, req.body)
    /\ UNCHANGED <<e_permits, e_sent, e_up>>

\* "async with _api_request_lock" is entered and proxy.chat_completions sends
\* the request upstream.
Dispatch ==
    /\ e_pc = "wait"
    /\ e_pc' = "call"
    /\ e_permits' = e_permits + 1
    /\ e_sent' = UpstreamRequestOf(e_req)
    /\ UNCHANGED <<e_req, e_up, e_answer>>

\* Upstream answers and the handler, or its generator, ends.
UpstreamAnswer ==
    /\ e_pc = "call"
    /\ \E up \in UpstreamAnswers :
        /\ up.body = "result" => ~e_req.stream
        /\ up.body = "stream" => e_req.stream
        /\ e_up' = up
        /\ e_answer' = IF e_req.stream THEN StreamAnswer(e_req.endpoint, up)
                       ELSE JsonAnswer(e_req, up)
    /\ e_pc' = "done"
    /\ UNCHANGED <<e_req, e_permits, e_sent>>

\* The envelope of the endpoint's own error answers.
OwnEnvelope(endpoint) ==
    IF endpoint = "completions" THEN "openai_error" ELSE "anthropic_error"

\* C22: a request body that is not valid JSON is answered with a 4xx status
\* in the endpoint's own error envelope, an error object with a message and
\* a type; no permit was taken and nothing was sent upstream.
C22_InvalidJsonAnsweredInOwnEnvelope ==
    (e_pc = "done" /\ e_req.body \in {"badjson", "badutf8"}) =>
        /\ e_answer.status \in 400..499
        /\ e_answer.envelope = OwnEnvelope(e_req.endpoint)
        /\ e_answer.type # ""
        /\ e_answer.message # NoMessage
        /\ e_permits = 0
        /\ e_sent = NoUpstreamRequest

\* C23: when upstream answered the call with a non-2xx status, the caller
\* gets an error that carries the vendor's message when the upstream body has
\* one and otherwise the raw upstream status, on both endpoints, streaming or
\* not.
C23_UpstreamErrorReachesCaller ==
    (e_pc = "done" /\ e_up.status \notin {0, 200}) =>
        e_answer.message =
            (IF e_up.body = "msg" THEN Message("vendor", 0)
             ELSE Message("exception", e_up.status))

\* The content parts of a success answer: the blocks of a messages response;
\* the text and the tool calls of the message of a completions response.
ContentParts(answer) ==
    IF answer.envelope = "message" THEN answer.blocks
    ELSE IF answer.envelope = "completion"
    THEN LET text == IF answer.result.content # NoText
                     THEN <<TextBlock(answer.result.content)>> ELSE <<>>
         IN  text \o ToolUseBlocks(answer.result.tool_calls, Len(text))
    ELSE <<>>

\* One text block holding a diagnostic placeholder.
IsPlaceholder(parts) ==
    /\ Len(parts) = 1
    /\ parts[1].type = "text"
    /\ parts[1].text \in {NoChoicesText, EmptyContentText}

\* Upstream answered a non-streaming call with 200 and a result that has no
\* choices, or whose first choice has no text and no tool calls.
AnsweredJson(endpoints) ==
    /\ e_pc = "done"
    /\ ~e_req.stream
    /\ e_req.endpoint \in endpoints
    /\ e_up.status = 200
EmptyResult(result) ==
    \/ ~result.choices
    \/ result.content = NoText /\ result.reasoning = NoText /\ result.tool_calls = <<>>

\* C24 as stated: when the upstream non-streaming response has no choices, or
\* a first choice with neither text nor tool calls, the response given to the
\* caller contains exactly one placeholder text block, not empty content or
\* an error; every non-streaming response has at least one content block.
C24_PlaceholderOnBothEndpoints ==
    AnsweredJson(Endpoints) =>
        /\ EmptyResult(e_up.result) =>
              e_answer.status = 200 /\ IsPlaceholder(ContentParts(e_answer))
        /\ Len(ContentParts(e_answer)) >= 1

\* C24, amended: on the messages endpoint the response to such an upstream
\* response contains exactly one placeholder text block, and every
\* non-streaming messages response has at least one content block. On the
\* completions endpoint a result without choices is answered with a 500
\* error, and an empty first choice is passed on with its empty content.
C24_PlaceholderOnMessagesEndpoint ==
    /\ AnsweredJson({"messages"}) =>
          /\ EmptyResult(e_up.result) =>
                e_answer.status = 200 /\ IsPlaceholder(ContentParts(e_answer))
          /\ Len(ContentParts(e_answer)) >= 1
    /\ (AnsweredJson({"completions"}) /\ EmptyResult(e_up.result)) =>
          IF e_up.result.choices
          THEN e_answer.status = 200 /\ ContentParts(e_answer) = <<>>
          ELSE e_answer.status = 500 /\ e_answer.envelope = "openai_error"

\* A messages call answered for an upstream result without choices, and one
\* for an empty first choice.
C24_Witness ==
    /\ AnsweredJson({"messages"})
    /\ ~e_up.result.choices
    /\ e_answer.blocks = <<TextBlock(NoChoicesText)>>

\* C25 as stated: on either endpoint the model sent upstream is the requested
\* one when it is in the allow-list and the default model (glm-5) otherwise;
\* a message list of one user message with string content is sent unchanged.
Sent == e_pc \in {"call", "done"} /\ e_req.body = "ok"
MappedAndUnchanged ==
    /\ e_sent.model = (IF e_req.model \in KnownIFlowModels THEN e_req.model ELSE "glm-5")
    /\ e_req.messages = <<StringMessage("user", Hi)>> =>
          e_sent.messages \in { <<StringMessage("user", Hi)>>,
                                <<OpenAIMessage("user", "text", Hi, <<>>, <<>>, NoId)>> }
C25_UnknownModelBecomesDefault == Sent => MappedAndUnchanged

\* C25, amended: on the messages endpoint the model sent upstream is the
\* requested one when it is in the allow-list and the default model
\* otherwise; on the completions endpoint the requested name is sent as it
\* came.
C25_MessagesModelBecomesDefault ==
    Sent => IF e_req.endpoint = "messages" THEN MappedAndUnchanged
            ELSE e_sent.model = e_req.model /\ e_sent.messages = e_req.messages

\* The example: model claude-x with one user message "hi" on the messages
\* endpoint, sent upstream.
C25_Witness ==
    /\ Sent
    /\ e_req.endpoint = "messages"
    /\ e_req.model = "claude-x"
    /\ e_req.messages = <<StringMessage("user", Hi)>>
    /\ e_sent.model = "glm-5"

\* C40: every model id returned by the models-listing endpoint is in the
\* messages endpoint's allow-list, so a request for any listed model on the
\* messages endpoint sends exactly that model upstream and never the default
\* substitute. Said of the requests: a listed id outside the allow-list
\* would be sent as the default model.
C40_ListedModelIsSentAsIs ==
    (Sent /\ e_req.endpoint = "messages" /\ e_req.model \in ListedModelIds)
        => e_sent.model = e_req.model

\* A request for a listed model other than the default has been sent
\* upstream from the messages endpoint.
C40_Witness ==
    /\ Sent
    /\ e_req.endpoint = "messages"
    /\ e_req.model = "kimi-k2-0905"
    /\ e_sent.model = "kimi-k2-0905"

(***************************************************************************)
(*                      TELEMETRY OF A CHAT CALL                           *)
(*                                                                         *)
(* proxy.chat_completions from its first line to its result. A trace id is *)
(* a positive number, secrets.token_hex giving each time a value not given *)
(* before. A call keeps the log of the requests made for it, in order: the *)
(* run_started event, the v.gif beacon, the upstream chat request, the     *)
(* run_error event; a telemetry request may fail.                          *)
(***************************************************************************)
NumChatCalls == 2
ChatCalls == 1..NumChatCalls

\* f"00-{trace_id}-{parent_id}-01".
NoTraceparent == <<>>
GenerateTraceparent(fresh) == <<"00", fresh, "parent", "01">>

\* _extract_trace_id: the second of the four parts when it has 32 digits.
ExtractTraceId(traceparent, fresh) ==
    IF Len(traceparent) = 4 /\ traceparent[2] > 0 THEN traceparent[2] ELSE fresh

\* _get_headers: 'headers["traceparent"] = traceparent or
\* self._generate_traceparent()'.
TraceHeadersFresh(traceparent, fresh) == [traceparent |-> GenerateTraceparent(fresh)]
TraceHeaders(traceparent, fresh) ==
    [traceparent |-> IF traceparent # NoTraceparent THEN traceparent
                     ELSE GenerateTraceparent(fresh)]

\* One request made for a call: what it is, the trace id it carries (0: none)
\* and whether it failed.
Made(what, tid, failed) == [what |-> what, trace |-> tid, failed |-> failed]

\* _telemetry_post_gm and _telemetry_post_vgif: the request, and whether an
\* exception leaves the function ("except Exception: logger.debug").
TelemetryPost(failed) == FALSE

\* How the call ends after an upstream error, given the fate of the run_error
\* request: the handler re-raises the upstream error ("raise").
AfterRunErrorLast(failed) == IF failed THEN "telemetry_error" ELSE "upstream_error"
AfterRunError(failed) == "upstream_error"

\* The chat request may go out once both telemetry requests of
\* _emit_run_started are over.
MayAskUpstreamEarly(position) == position \in {"run_started", "vgif", "chat"}
MayAskUpstream(position) == position = "chat"

\* CHAT_API_HEADER_ORDER: the header names of a chat request in the order and
\* the letter case of the client the proxy presents itself as.
ChatApiHeaderOrder ==
    <<"host", "connection", "Content-Type", "Authorization", "user-agent",
      "session-id", "conversation-id", "x-iflow-signature", "x-iflow-timestamp",
      "traceparent", "accept", "accept-language", "sec-fetch-mode",
      "accept-encoding", "content-length">>

\* The headers of the Aone branch, which the published order does not list.
AoneHeaders == <<"X-Client-Type", "X-Client-Version">>

\* _get_headers: the names of the dict it returns, in insertion order. The
\* dict literal comes first, the signature pair is added when
\* generate_signature returned one (the api key is not empty), then
\* traceparent, then the Aone pair for an Aone base url. The transports pass
\* the dict on as it is.
GetHeaders(signed, aone) ==
    <<"Content-Type", "Authorization", "user-agent", "session-id",
      "conversation-id", "accept", "accept-language", "sec-fetch-mode",
      "accept-encoding">>
    \o (IF signed THEN <<"x-iflow-signature", "x-iflow-timestamp">> ELSE <<>>)
    \o <<"traceparent">>
    \o (IF aone THEN AoneHeaders ELSE <<>>)

NoChatCall ==
    [pc |-> "idle", traceparent |-> NoTraceparent, trace_id |-> 0,
     parent_observation_id |-> "", up |-> "none", outcome |-> "none", log |-> <<>>,
     signed |-> FALSE, aone |-> FALSE, headers |-> <<>>]

\* One IFlowProxy makes every call: whether it has an api key to sign with
\* and whether its base_url is the Aone endpoint are fixed by its config.
TelemetryInit ==
    /\ \E signed, aone \in BOOLEAN :
        m_calls = [c \in ChatCalls |->
                      [NoChatCall EXCEPT !.signed = signed, !.aone = aone]]
    /\ m_next = 1
\* No chat call is made.
TelemetryIdle ==
    /\ m_calls = <<>>
    /\ m_next = 1

\* chat_completions begins: traceparent and trace_id of the call.
BeginCall(c) ==
    /\ m_calls[c].pc = "idle"
    /\ LET traceparent == GenerateTraceparent(m_next)
       IN  m_calls' = [m_calls EXCEPT ![c].pc = "run_started",
                                      ![c].traceparent = traceparent,
                                      ![c].trace_id = ExtractTraceId(traceparent, m_next + 1)]
    /\ m_next' = m_next + 1

\* _emit_run_started awaits the run_started event.
PostRunStarted(c) ==
    /\ m_calls[c].pc = "run_started"
    /\ \E failed \in BOOLEAN :
        m_calls' = [m_calls EXCEPT
            ![c].pc = IF TelemetryPost(failed) THEN "chat" ELSE "vgif",
            ![c].log = Append(@, Made("run_started", m_calls[c].trace_id, failed))]
    /\ UNCHANGED m_next

\* _emit_run_started awaits the beacon and returns the observation id; had
\* it raised, parent_observation_id would stay empty.
PostVgif(c) ==
    /\ m_calls[c].pc = "vgif"
    /\ \E failed \in BOOLEAN :
        m_calls' = [m_calls EXCEPT
            ![c].pc = "chat",
            ![c].parent_observation_id = IF TelemetryPost(failed) THEN "" ELSE "obs",
            ![c].log = Append(@, Made("vgif", 0, failed))]
    /\ UNCHANGED m_next

\* client.post / client.stream with the headers of _get_headers.
AskUpstream(c) ==
    /\ MayAskUpstream(m_calls[c].pc)
    /\ LET headers == TraceHeaders(m_calls[c].traceparent, m_next)
       IN  m_calls' = [m_calls EXCEPT
              ![c].pc = "await",
              ![c].headers = GetHeaders(m_calls[c].signed, m_calls[c].aone),
              ![c].log = Append(@, Made("chat", headers.traceparent[2], FALSE))]
    /\ UNCHANGED m_next

\* Upstream answers: the result is returned, or raise_for_status raises.
UpstreamReplies(c) ==
    /\ m_calls[c].pc = "await"
    /\ \E up \in {"ok", "error"} :
        m_calls' = [m_calls EXCEPT
            ![c].up = up,
            ![c].pc = IF up = "ok" THEN "done"
                      ELSE IF m_calls[c].parent_observation_id # "" THEN "run_error"
                      ELSE "done",
            ![c].outcome = IF up = "ok" THEN "result"
                           ELSE IF m_calls[c].parent_observation_id # "" THEN "none"
                           ELSE "upstream_error"]
    /\ UNCHANGED m_next

\* The handler awaits _emit_run_error and raises.
PostRunError(c) ==
    /\ m_calls[c].pc = "run_error"
    /\ \E failed \in BOOLEAN :
        m_calls' = [m_calls EXCEPT
            ![c].pc = "done",
            ![c].outcome = AfterRunError(failed),
            ![c].log = Append(@, Made("run_error", m_calls[c].trace_id, failed))]
    /\ UNCHANGED m_next

LogOf(c) == m_calls[c].log
Entries(c, whats) == {i \in 1..Len(LogOf(c)) : LogOf(c)[i].what \in whats}
TelemetryKinds == {"run_started", "vgif", "run_error"}
Ended(c) == m_calls[c].pc = "done"

\* C28: a failure of a telemetry request (run_started, v.gif, run_error)
\* never changes what the caller gets: the call returns the result, or raises
\* the upstream error, as it does when the telemetry requests succeed.
C28_TelemetryFailureIsInvisible ==
    \A c \in ChatCalls :
        Ended(c) =>
            m_calls[c].outcome =
                (IF m_calls[c].up = "ok" THEN "result" ELSE "upstream_error")

\* One call ended with the upstream error although all three of its
\* telemetry requests failed, another returned its result although its two
\* failed.
C28_Witness ==
    \E c, d \in ChatCalls :
        /\ Ended(c) /\ Ended(d)
        /\ m_calls[c].outcome = "upstream_error"
        /\ Cardinality(Entries(c, TelemetryKinds)) = 3
        /\ m_calls[d].outcome = "result"
        /\ \A i \in Entries(c, TelemetryKinds) : LogOf(c)[i].failed
        /\ \A i \in Entries(d, TelemetryKinds) : LogOf(d)[i].failed

C30_OneTraceIdPerCall ==
    /\ \A c \in ChatCalls :
          \A i \in Entries(c, {"chat", "run_started", "run_error"}) :
              /\ m_calls[c].trace_id > 0
              /\ LogOf(c)[i].trace = m_calls[c].trace_id
    /\ \A c, d \in ChatCalls :
          (c # d /\ m_calls[c].pc # "idle" /\ m_calls[d].pc # "idle") =>
              m_calls[c].trace_id # m_calls[d].trace_id

\* Two calls have ended, one of them with a run_error event.
C30_Witness ==
    \E c, d \in ChatCalls :
        /\ c # d
        /\ Ended(c) /\ Ended(d)
        /\ Entries(c, {"run_error"}) # {}
        /\ Entries(d, {"chat"}) # {}

\* The place of a header name in a list of names (0: not in the list).
PlaceIn(name, order) ==
    IF \E i \in 1..Len(order) : order[i] = name
    THEN CHOOSE i \in 1..Len(order) : order[i] = name
    ELSE 0

\* The names of a request's headers that the published order lists, as sent.
Published(headers) ==
    {i \in 1..Len(headers) : PlaceIn(headers[i], ChatApiHeaderOrder) # 0}

\* C31: the headers of every upstream chat request appear in the published
\* chat header order (conversation-id, x-iflow-signature, x-iflow-timestamp,
\* traceparent, accept, accept-language, sec-fetch-mode, accept-encoding)
\* with the published letter case: but for the Aone pair every name sent is
\* a published name, and two names are sent in the order of the list.
C31_ChatHeadersInPublishedOrder ==
    \A c \in ChatCalls :
        LET headers == m_calls[c].headers
        IN  /\ \A i \in 1..Len(headers) :
                  \/ i \in Published(headers)
                  \/ \E k \in 1..Len(AoneHeaders) : AoneHeaders[k] = headers[i]
            /\ \A i, j \in Published(headers) :
                  i < j => PlaceIn(headers[i], ChatApiHeaderOrder)
                           < PlaceIn(headers[j], ChatApiHeaderOrder)

(***************************************************************************)
(*                          THE RATE LIMITER                               *)
(*                                                                         *)
(* ratelimit.RateLimiter: for each client the list of the timestamps of    *)
(* its recorded requests, and the three limits given at construction. The  *)
(* methods run under the limiter's lock, so each is one step. The history  *)
(* of admitted requests (l_admitted) is kept beside the limiter's own list *)
(* to say what the limiter was asked to enforce.                           *)
(***************************************************************************)
MaxLimit == 2
MaxTicks == 3
MaxRequests == 3

MinuteWindow == 60
HourWindow == 3600
DayWindow == 86400

Clients == {"key", "ip"}
Limits == 1..MaxLimit
Advances == {MinuteWindow + 1, HourWindow, DayWindow}

\* _clean_old_requests: the timestamps later than now - window stay.
CleanOldRequests(requests, now, window) ==
    SelectSeq(requests, LAMBDA ts : ts > now - window)

\* _count_requests: cleans the client's list, then counts what is left.
CountRequests(requests, now, window) ==
    LET kept == CleanOldRequests(requests, now, window)
    IN  [requests |-> kept, count |-> Len(kept)]

\* is_allowed on a client's list: the answer, and the list it leaves.
IsAllowed(requests, now, limits) ==
    LET minute == CountRequests(requests, now, MinuteWindow)
        hour == CountRequests(minute.requests, now, HourWindow)
        day == CountRequests(hour.requests, now, DayWindow)
    IN  IF minute.count >= limits.per_minute
        THEN [allowed |-> FALSE, message |-> "per minute", requests |-> minute.requests]
        ELSE IF hour.count >= limits.per_hour
        THEN [allowed |-> FALSE, message |-> "per hour", requests |-> hour.requests]
        ELSE IF day.count >= limits.per_day
        THEN [allowed |-> FALSE, message |-> "per day", requests |-> day.requests]
        ELSE [allowed |-> TRUE, message |-> "none", requests |-> Append(day.requests, now)]

\* How many times a timestamp is in a list.
CountOf(requests, ts) == Cardinality({i \in 1..Len(requests) : requests[i] = ts})

NoLimiterAnswer ==
    [client |-> "none", allowed |-> FALSE, message |-> "none", at |-> 0,
     before |-> <<>>, recorded |-> FALSE]

\* RateLimiter(per_minute, per_hour, per_day): no request recorded.
LimiterInit ==
    /\ l_limits \in [per_minute : Limits, per_hour : Limits, per_day : Limits]
    /\ l_requests = [c \in Clients |-> <<>>]
    /\ l_admitted = [c \in Clients |-> <<>>]
    /\ l_now = 0
    /\ l_ticks = 0
    /\ l_calls = 0
    /\ l_answer = NoLimiterAnswer
\* A limiter nobody calls: its defaultdict has no client yet.
LimiterIdle ==
    /\ l_limits = [per_minute |-> 1, per_hour |-> 1, per_day |-> 1]
    /\ l_requests = <<>>
    /\ l_admitted = <<>>
    /\ l_now = 0
    /\ l_ticks = 0
    /\ l_calls = 0
    /\ l_answer = NoLimiterAnswer

\* time.time() moves on.
LimiterTick ==
    /\ l_ticks < MaxTicks
    /\ \E d \in Advances : l_now' = l_now + d
    /\ l_ticks' = l_ticks + 1
    /\ UNCHANGED <<l_limits, l_requests, l_admitted, l_calls, l_answer>>

\* is_allowed(client_id).
CheckRateLimit ==
    /\ l_calls < MaxRequests
    /\ \E c \in Clients :
        LET res == IsAllowed(l_requests[c], l_now, l_limits)
        IN  /\ l_requests' = [l_requests EXCEPT ![c] = res.requests]
            /\ l_admitted' = [l_admitted EXCEPT
                                 ![c] = IF res.allowed THEN Append(@, l_now) ELSE @]
            /\ l_answer' = [client |-> c, allowed |-> res.allowed,
                            message |-> res.message, at |-> l_now,
                            before |-> l_admitted[c],
                            recorded |-> CountOf(res.requests, l_now)
                                            > CountOf(l_requests[c], l_now)]
    /\ l_calls' = l_calls + 1
    /\ UNCHANGED <<l_limits, l_now, l_ticks>>

\* get_stats(client_id): the three counts, each cleaning the list.
GetStats ==
    /\ \E c \in Clients :
        LET minute == CountRequests(l_requests[c], l_now, MinuteWindow)
            hour == CountRequests(minute.requests, l_now, HourWindow)
            day == CountRequests(hour.requests, l_now, DayWindow)
        IN  /\ day.requests # l_requests[c]
            /\ l_requests' = [l_requests EXCEPT ![c] = day.requests]
    /\ UNCHANGED <<l_limits, l_admitted, l_now, l_ticks, l_calls, l_answer>>

\* reset(client_id): the client's list is deleted; what it was admitted
\* before no longer counts.
ResetLimiter ==
    /\ \E c \in Clients :
        /\ l_admitted[c] # <<>>
        /\ l_requests' = [l_requests EXCEPT ![c] = <<>>]
        /\ l_admitted' = [l_admitted EXCEPT ![c] = <<>>]
    /\ UNCHANGED <<l_limits, l_now, l_ticks, l_calls, l_answer>>

\* The admitted requests of a history in the window before a moment.
AdmittedWithin(history, at, window) ==
    Cardinality({i \in 1..Len(history) : history[i] > at - window})

\* C33: is_allowed admits a client's request only if that client has fewer
\* than per_hour admitted requests in the preceding 3600 seconds and fewer
\* than per_day admitted requests in the preceding 86400 seconds (besides the
\* per-minute limit); a request over any of the rolling limits is rejected
\* and is not recorded.
C33_RollingHourAndDayLimits ==
    l_answer.client # "none" =>
        /\ l_answer.allowed =>
              /\ AdmittedWithin(l_answer.before, l_answer.at, MinuteWindow)
                    < l_limits.per_minute
              /\ AdmittedWithin(l_answer.before, l_answer.at, HourWindow)
                    < l_limits.per_hour
              /\ AdmittedWithin(l_answer.before, l_answer.at, DayWindow)
                    < l_limits.per_day
        /\ l_answer.recorded = l_answer.allowed

\* The part of the claim the code keeps: the per-minute limit, and that a
\* rejected request is not recorded.
LimiterMinuteLimitKept ==
    l_answer.client # "none" =>
        /\ l_answer.allowed =>
              AdmittedWithin(l_answer.before, l_answer.at, MinuteWindow)
                  < l_limits.per_minute
        /\ l_answer.recorded = l_answer.allowed

(***************************************************************************)
(*                         THE TOKEN REFRESHER                             *)
(*                                                                         *)
(* Time is counted in hours. A credential is what load_iflow_config reads  *)
(* from ~/.iflow/settings.json; tokens are numbers, 0 standing for an      *)
(* absent token, 1 for the token of the login, and o + 1 for the token the  *)
(* endpoint issues to execution o of the refresh operation.                *)
(***************************************************************************)
MaxChecks == 2
MaxCalls == 2

CheckIntervalHours == 6
RefreshBufferHours == 24
RetryCount == 5
RetryDelaySeconds == 30
MaxDelaySeconds == 300

\* Executions of _refresh_token_with_retry, numbered in the order they start.
Ops == 1..MaxCalls

NoExpiry == [known |-> FALSE, at |-> 0]
ExpiresAt(h) == [known |-> TRUE, at |-> h]

\* An IFlowConfig: api_key is what the proxy signs with, access_token is
\* oauth_access_token.
Credential(auth, rt, exp) ==
    [auth_type |-> auth, api_key |-> 1, access_token |-> 1,
     refresh_token |-> rt, expires_at |-> exp]

Credentials ==
    { Credential(a, rt, e) :
        a \in {"oauth-iflow", "api-key"},
        rt \in {0, 1},
        e \in {NoExpiry} \cup {ExpiresAt(h) : h \in {0, 6, 23, 24, 31}} }

\* retry_count and retry_delay as the constructor can be given them: the
\* defaults, and settings that reach the maximum delay early.
RetrySettings ==
    { [count |-> RetryCount, delay |-> RetryDelaySeconds],
      [count |-> 4, delay |-> 200],
      [count |-> 2, delay |-> 400],
      [count |-> 1, delay |-> RetryDelaySeconds] }

\* The fields class IFlowConfig declares.
IFlowConfigFields ==
    {"api_key", "base_url", "model_name", "cna", "installation_id", "auth_type",
     "oauth_access_token", "oauth_refresh_token", "oauth_expires_at"}

\* Reading an attribute of an IFlowConfig (a pydantic BaseModel) that is no
\* declared field raises AttributeError; assigning one raises ValueError.
HasField(f) == f \in IFlowConfigFields

\* save_iflow_config(config) on the file contents: apiKey is always
\* written, the OAuth fields only when they are not None.
SaveIFlowConfig(file, config) ==
    [auth_type |-> config.auth_type,
     api_key |-> config.api_key,
     access_token |-> IF config.access_token # 0 THEN config.access_token
                      ELSE file.access_token,
     refresh_token |-> IF config.refresh_token # 0 THEN config.refresh_token
                       ELSE file.refresh_token,
     expires_at |-> IF config.expires_at.known THEN config.expires_at
                    ELSE file.expires_at]

\* What a check can find about the lifetime left at time now.
Lifetime(config, now) ==
    IF ~config.expires_at.known THEN "unknown"
    ELSE IF config.expires_at.at - now <= 0 THEN "expired"
    ELSE IF config.expires_at.at - now < RefreshBufferHours THEN "below"
    ELSE "enough"

\* OAuthTokenRefresher._should_refresh: "false", "true", or "raise" when the
\* evaluation raises. Line 142 reads config.api_key_expires_at first.
ShouldRefresh(config, now) ==
    IF config.refresh_token = 0 THEN "false"
    ELSE IF ~HasField("api_key_expires_at") THEN "raise"
    ELSE IF ~config.expires_at.known THEN "false"
    ELSE IF config.expires_at.at - now <= 0 THEN "true"
    ELSE IF config.expires_at.at - now < RefreshBufferHours THEN "true"
    ELSE "false"

\* The first statement of _refresh_token_with_retry: without a refresh_token
\* the operation returns False at once.
CanRefreshAlways(config) == TRUE
CanRefresh(config) == config.refresh_token # 0

\* The frame of one execution: attempt, config, failed_due_to_overload,
\* delay and last_error are its locals; waits (the delays slept so far) and
\* reports (what it gave the callback) are its history; result is how it
\* ended: "success" (returned True), "failed" or "no_refresh_token" (returned
\* False), "raised" (an exception left it).
IdleOp ==
    [pc |-> "idle", attempt |-> 0, config |-> Credential("none", 0, NoExpiry),
     overload |-> FALSE, delay |-> 0, waits |-> <<>>, last_error |-> "none", verdict |-> "none",
     reports |-> <<>>, result |-> "none", calls |-> 0]

\* The frame once the execution is over; what it was is kept in r_ended.
EndedOp == [IdleOp EXCEPT !.calls = 1, !.result = "ended"]
NoneEnded == [id |-> 0, op |-> IdleOp]

\* _refresh_token_with_retry(config) up to its first attempt.
BeginOp(op, config) ==
    IF CanRefresh(config)
    THEN [op EXCEPT !.pc = "attempt", !.attempt = 1, !.config = config,
                    !.overload = FALSE, !.delay = 0, !.result = "none",
                    !.calls = @ + 1]
    ELSE [op EXCEPT !.pc = "idle", !.attempt = 0, !.config = config,
                    !.result = "no_refresh_token", !.calls = @ + 1]

\* Answers of the token endpoint, as IFlowOAuth.refresh_token turns them into
\* a return value or an exception:
\*   ok_plain      access_token only
\*   ok_rotated    access_token and a new refresh_token
\*   ok_expiry     access_token and expires_in (token_data gets expires_at)
\*   invalid_grant HTTP 400 with error invalid_grant
\*   overloaded    HTTP 200, success false, overload message or code "500"
\*   refused       HTTP 200, success false, another message
\*   http_NNN      raise_for_status() on status NNN; the message names the
\*                 status code and its reason phrase
\* The message of a connection error or of a timeout is the HTTP library's
\* and is not modelled.
OkResponses == {"ok_plain", "ok_rotated", "ok_expiry"}
Responses ==
    OkResponses \cup
    {"invalid_grant", "overloaded", "refused", "http_500", "http_503"}

\* The substrings of the exception message str(e) that the classification
\* looks for. "server_overloaded", "too_many", "network",
\* "refresh_token_invalid" and "expired" stand for the Chinese phrases of
\* lines 251, 252, 257, 266 and 267.
MessageOf(resp) ==
    CASE resp = "invalid_grant" -> {"refresh_token_invalid", "expired"}
      [] resp = "overloaded"    -> {"server_overloaded"}
      [] resp = "http_500"      -> {"500"}
      [] resp = "http_503"      -> {"503"}
      [] OTHER                  -> {}

TransientMarkers ==
    {"too_many", "server_overloaded", "overload", "timeout", "timed out",
     "connect", "network", "503", "502", "429"}
InvalidGrantMarkers ==
    {"invalid_grant", "invalid_token", "refresh_token_invalid", "expired"}

\* The classification of the exception message in _refresh_token_with_retry.
IsTransientErrorAlways(message) == TRUE
IsTransientError(message) == message \cap TransientMarkers # {}
IsInvalidGrant(message) == message \cap InvalidGrantMarkers # {}

\* delay = min(retry_delay * 2 ** (attempt - 1), 300)
RECURSIVE Pow2(_)
Pow2(n) == IF n = 0 THEN 1 ELSE 2 * Pow2(n - 1)
BackoffDelayUncapped(retry_delay, attempt) == retry_delay * Pow2(attempt - 1)
BackoffDelay(retry_delay, attempt) ==
    LET d == retry_delay * Pow2(attempt - 1)
    IN  IF d < MaxDelaySeconds THEN d ELSE MaxDelaySeconds

\* What IFlowOAuth.refresh_token returns for an ok answer.
TokenData(resp, token, now) ==
    [access_token |-> token,
     refresh_token |-> IF resp = "ok_rotated" THEN token ELSE 0,
     expires_at |-> IF resp = "ok_expiry"
                    THEN ExpiresAt(now + 2 * RefreshBufferHours) ELSE NoExpiry]

\* Lines 217-222: token_data written into the config of the operation. The
\* assignment to config.api_key_expires_at comes last and raises when
\* IFlowConfig has no such field.
ApplyTokenData(config, td) ==
    [config |-> [config EXCEPT
                    !.access_token = td.access_token,
                    !.refresh_token = IF td.refresh_token # 0
                                      THEN td.refresh_token ELSE @,
                    !.expires_at = IF td.expires_at.known
                                   THEN td.expires_at ELSE @],
     raised |-> td.expires_at.known /\ ~HasField("api_key_expires_at")]

\* The module state of app.py: _proxy / _config. get_proxy() creates both
\* from the file at the first chat request.
NoProxy == [created |-> FALSE, config |-> Credential("none", 0, NoExpiry)]
GetProxy(proxy, file) ==
    IF proxy.created THEN proxy ELSE [created |-> TRUE, config |-> file]

\* The dict handed to the callback when the operation fails.
Report(transient) == [error |-> TRUE, transient |-> transient]
SuccessReport == [error |-> FALSE, transient |-> FALSE]

\* update_proxy_token(token_data), the registered callback. has_token says
\* whether token_data has the key "access_token" (a failure report has not,
\* and token_data["access_token"] raises KeyError); disk_ok whether its
\* save_iflow_config succeeds.
UpdateProxyToken(proxy, file, has_token, td, disk_ok) ==
    IF ~proxy.created
    THEN [proxy |-> proxy, file |-> file, raised |-> FALSE]
    ELSE IF ~has_token
    THEN [proxy |-> proxy, file |-> file, raised |-> TRUE]
    ELSE LET cfg == [proxy.config EXCEPT
                        !.api_key = td.access_token,
                        !.access_token = td.access_token,
                        !.refresh_token = IF td.refresh_token # 0
                                          THEN td.refresh_token ELSE @,
                        !.expires_at = IF td.expires_at.known
                                       THEN td.expires_at ELSE @]
         IN  [proxy |-> [proxy EXCEPT !.config = cfg],
              file |-> IF disk_ok THEN SaveIFlowConfig(file, cfg) ELSE file,
              raised |-> ~disk_ok]

\* Whether the two save_iflow_config calls of a successful attempt work.
DiskStates == {"ok", "save_fails", "callback_save_fails"}

\* Lines 214-237, the try block after an ok answer. message is str(e) of the
\* exception that left the block, when one did.
TryBlock(op, td, disk, file, proxy) ==
    LET a == ApplyTokenData(op.config, td)
        saved == SaveIFlowConfig(file, a.config)
        cb == UpdateProxyToken(proxy, saved, TRUE, td, disk # "callback_save_fails")
    IN  IF a.raised
        THEN [ok |-> FALSE, error |-> "assign_raises", config |-> a.config,
              file |-> file, proxy |-> proxy, reports |-> <<>>]
        ELSE IF disk = "save_fails"
        THEN [ok |-> FALSE, error |-> "save_raises", config |-> a.config,
              file |-> file, proxy |-> proxy, reports |-> <<>>]
        ELSE [ok |-> ~cb.raised,
              error |-> IF cb.raised THEN "callback_raises" ELSE "none",
              config |-> a.config, file |-> cb.file, proxy |-> cb.proxy,
              reports |-> <<SuccessReport>>]

\* Lines 291-323: the failure report goes to the callback, outside any try;
\* an exception of the callback leaves the operation.
FailureTail(op, overload, file, proxy) ==
    LET cb == UpdateProxyToken(proxy, file, FALSE, TokenData("none", 0, 0), TRUE)
    IN  [op |-> [op EXCEPT !.pc = "idle", !.overload = overload,
                           !.reports = Append(@, Report(overload)),
                           !.result = IF cb.raised THEN "raised" ELSE "failed"],
         file |-> cb.file, proxy |-> cb.proxy]

\* Lines 239-289: the except block on an exception with this message at this
\* attempt; settings are retry_count and retry_delay.
ExceptBlock(op, message, settings, file, proxy) ==
    IF IsTransientError(message)
    THEN IF op.attempt < settings.count
         THEN LET d == BackoffDelay(settings.delay, op.attempt)
              IN  [op |-> [op EXCEPT !.pc = "sleeping", !.overload = TRUE,
                                     !.verdict = "transient",
                                     !.delay = d, !.waits = Append(@, d)],
                   file |-> file, proxy |-> proxy]
         ELSE FailureTail([op EXCEPT !.verdict = "transient"], TRUE, file, proxy)
    ELSE IF IsInvalidGrant(message)
    THEN FailureTail([op EXCEPT !.verdict = "invalid_grant"], FALSE, file, proxy)
    ELSE FailureTail([op EXCEPT !.verdict = "unknown"], FALSE, file, proxy)

\* One pass of the loop of _refresh_token_with_retry for the answer resp.
AttemptOutcome(op, resp, disk, token, now, settings, file, proxy) ==
    IF resp \in OkResponses
    THEN LET t == TryBlock(op, TokenData(resp, token, now), disk, file, proxy)
                 op1 == [op EXCEPT !.config = t.config, !.last_error = t.error,
                               !.reports = @ \o t.reports]
         IN  IF t.ok
             THEN [op |-> [op1 EXCEPT !.pc = "idle", !.result = "success"],
                   file |-> t.file, proxy |-> t.proxy]
             ELSE ExceptBlock(op1, {}, settings, t.file, t.proxy)
    ELSE ExceptBlock([op EXCEPT !.last_error = resp], MessageOf(resp),
                     settings, file, proxy)

NoRequest == [pc |-> "none", authorization |-> 0, signature_key |-> 0, fresh |-> 0]

\* _get_headers: the Authorization header (line 106) and the key of the HMAC
\* signature (line 121) are both read from self.config.api_key.
AuthorizationOf(config) == config.api_key
SignatureKeyOf(config) == config.api_key

\* The refresher as lifespan builds it (default retry settings), for each
\* credential the file can hold.
RefreshInit ==
    /\ r_cred \in Credentials
    /\ r_settings = [count |-> RetryCount, delay |-> RetryDelaySeconds]
    /\ r_now = 0
    /\ r_running = FALSE
    /\ r_checks = 0
    /\ r_last = [oauth |-> FALSE, has_rt |-> FALSE, found |-> "none",
                 should |-> "none", started |-> 0]
    /\ r_op = [o \in Ops |-> IdleOp]
    /\ r_ended = NoneEnded
    /\ r_requests = {}
    /\ r_fresh = 0
    /\ p_config = NoProxy
    /\ p_sent = NoRequest

\* One OAuth credential that is due, under each of the retry settings.
RetryInit ==
    /\ r_cred = Credential("oauth-iflow", 1, ExpiresAt(0))
    /\ r_settings \in RetrySettings
    /\ r_now = 0
    /\ r_running = FALSE
    /\ r_checks = 0
    /\ r_last = [oauth |-> FALSE, has_rt |-> FALSE, found |-> "none",
                 should |-> "none", started |-> 0]
    /\ r_op = [o \in Ops |-> IdleOp]
    /\ r_ended = NoneEnded
    /\ r_requests = {}
    /\ r_fresh = 0
    /\ p_config = NoProxy
    /\ p_sent = NoRequest

\* The event loop is inside _get_headers: no other coroutine runs.
LoopFreeAlways == TRUE
LoopFree == p_sent.pc # "signing"

\* The executions that have not started yet, and the one to start next.
FreeOps == {o \in Ops : r_op[o].calls = 0}
NextOp == CHOOSE o \in FreeOps : \A q \in FreeOps : o <= q

\* The executions that are between their first attempt and their end.
InProgress == {o \in Ops : r_op[o].pc \in {"attempt", "sleeping"}}

\* Execution o goes on as frame op, or is over with it.
Continue(o, op) ==
    IF op.pc = "idle"
    THEN /\ r_op' = [r_op EXCEPT ![o] = EndedOp]
         /\ r_ended' = [id |-> o, op |-> op]
    ELSE /\ r_op' = [r_op EXCEPT ![o] = op]
         /\ UNCHANGED r_ended

\* OAuthTokenRefresher.start(), called by lifespan.
Start ==
    /\ ~r_running
    /\ r_checks = 0
    /\ r_running' = TRUE
    /\ UNCHANGED <<r_cred, r_settings, r_now, r_checks, r_last, r_op, r_ended,
                   r_requests, r_fresh, p_config, p_sent>>

\* OAuthTokenRefresher.stop().
Stop ==
    /\ r_running
    /\ r_running' = FALSE
    /\ UNCHANGED <<r_cred, r_settings, r_now, r_checks, r_last, r_op, r_ended,
                   r_requests, r_fresh, p_config, p_sent>>

\* One turn of _run_loop: load the credential, decide, schedule a refresh if
\* _should_refresh says so (any exception is logged and dropped), then wait
\* for check_interval. _schedule_refresh hands the coroutine to the event
\* loop and waits at most 60 s for its result; the coroutine runs on after
\* that wait timed out.
Check ==
    /\ r_running
    /\ r_checks < MaxChecks
    /\ LET config == r_cred
           sr == IF config.auth_type = "oauth-iflow"
                 THEN ShouldRefresh(config, r_now) ELSE "skip"
       IN  /\ sr = "true" => FreeOps # {}
           /\ r_last' = [oauth |-> config.auth_type = "oauth-iflow",
                         has_rt |-> config.refresh_token # 0,
                         found |-> Lifetime(config, r_now),
                         should |-> sr,
                         started |-> IF sr = "true" THEN 1 ELSE 0]
           /\ IF sr = "true"
              THEN Continue(NextOp, BeginOp(r_op[NextOp], config))
              ELSE UNCHANGED <<r_op, r_ended>>
    /\ r_checks' = r_checks + 1
    /\ r_now' = r_now + CheckIntervalHours
    /\ UNCHANGED <<r_cred, r_settings, r_running, r_requests, r_fresh,
                   p_config, p_sent>>

\* OAuthTokenRefresher._refresh_token(config), the older entry point, called
\* with the stored credential. Neither it nor _refresh_token_with_retry
\* looks whether an execution is in progress.
RefreshTokenCall ==
    /\ LoopFree
    /\ FreeOps # {}
    /\ Continue(NextOp, BeginOp(r_op[NextOp], r_cred))
    /\ UNCHANGED <<r_cred, r_settings, r_now, r_running, r_checks, r_last,
                   r_requests, r_fresh, p_config, p_sent>>

\* The same call by a caller that awaits each call before making the next.
RefreshTokenCallAlone ==
    /\ InProgress = {}
    /\ RefreshTokenCall

\* One pass of the retry loop of execution o: the request to the token
\* endpoint and everything that follows from its answer up to the next await
\* or the end of the execution.
RefreshAttempt(o) ==
    /\ LoopFree
    /\ r_op[o].pc = "attempt"
    /\ r_requests' = r_requests \cup {[refresh_token |-> r_op[o].config.refresh_token]}
    /\ \E resp \in Responses, disk \in DiskStates :
        LET token == o + 1
            out == AttemptOutcome(r_op[o], resp, disk, token, r_now, r_settings,
                                  r_cred, p_config)
        IN  /\ Continue(o, out.op)
            /\ r_cred' = out.file
            /\ p_config' = out.proxy
            /\ r_fresh' = IF out.op.result = "success" THEN token ELSE r_fresh
    /\ UNCHANGED <<r_settings, r_now, r_running, r_checks, r_last, p_sent>>

\* "await asyncio.sleep(delay); continue"
RetryWake(o) ==
    /\ LoopFree
    /\ r_op[o].pc = "sleeping"
    /\ r_op' = [r_op EXCEPT ![o] = [@ EXCEPT !.pc = "attempt", !.attempt = @ + 1]]
    /\ UNCHANGED <<r_cred, r_settings, r_now, r_running, r_checks, r_last, r_ended,
                   r_requests, r_fresh, p_config, p_sent>>

\* A chat request reaches IFlowProxy._get_headers: get_proxy() and the
\* Authorization header.
ChatRequest ==
    /\ LoopFree
    /\ LET proxy == GetProxy(p_config, r_cred)
       IN  /\ p_config' = proxy
           /\ p_sent' = [pc |-> "signing",
                         authorization |-> AuthorizationOf(proxy.config),
                         signature_key |-> 0,
                         fresh |-> r_fresh]
    /\ UNCHANGED <<r_cred, r_settings, r_now, r_running, r_checks, r_last, r_op,
                   r_ended, r_requests, r_fresh>>

\* The rest of _get_headers: the signature; the request is dispatched.
SignRequest ==
    /\ p_sent.pc = "signing"
    /\ p_sent' = [p_sent EXCEPT !.pc = "sent",
                                !.signature_key = SignatureKeyOf(p_config.config)]
    /\ UNCHANGED <<r_cred, r_settings, r_now, r_running, r_checks, r_last, r_op,
                   r_ended, r_requests, r_fresh, p_config>>

(***************************************************************************)
(* Claims about the refresher.                                             *)
(***************************************************************************)
\* C9: a credential without a refresh_token is never auto-refreshed: no
\* periodic check schedules a refresh for it and no request is ever sent to
\* the OAuth token endpoint for it, whatever its expiry instant.
C9_NoRefreshTokenNeverRefreshed ==
    /\ \A q \in r_requests : q.refresh_token # 0
    /\ (r_checks > 0 /\ ~r_last.has_rt) => r_last.started = 0
    /\ r_cred.refresh_token = 0 => r_requests = {}

\* An expired OAuth credential without refresh_token went through a periodic
\* check and through a call of the refresh operation.
C9_Witness ==
    /\ r_cred.auth_type = "oauth-iflow"
    /\ r_cred.refresh_token = 0
    /\ r_checks > 0
    /\ r_last.found = "expired"
    /\ r_ended.op.result = "no_refresh_token"

\* C10: each periodic check that finds an OAuth credential (with a refresh
\* token) expired or with less than the refresh buffer left starts exactly
\* one refresh operation; a check that finds at least the buffer left, or no
\* known expiry, starts none.
C10_OneRefreshPerDueCheck ==
    (r_checks > 0 /\ r_last.oauth /\ r_last.has_rt)
        => r_last.started = (IF r_last.found \in {"expired", "below"} THEN 1 ELSE 0)

\* The frames of the executions, those in progress and the one that ended last.
Frames == {r_op[o] : o \in Ops} \cup {r_ended.op}

C12_InvalidGrantStopsAtOnce ==
    \A f \in Frames :
        f.last_error = "invalid_grant" =>
            /\ f.pc = "idle"
            /\ f.result \in {"failed", "raised"}
            /\ f.verdict = "invalid_grant"
            /\ Len(f.waits) = f.attempt - 1
            /\ f.reports # <<>>
            /\ f.reports[Len(f.reports)] = Report(FALSE)
            /\ r_ended.op = f /\ r_op[r_ended.id] = EndedOp

\* The invalid-grant answer came at a later attempt, after transient failures
\* that had been waited for.
C12_Witness ==
    /\ r_ended.op.last_error = "invalid_grant"
    /\ r_ended.op.attempt >= 2
    /\ r_ended.op.attempt < r_settings.count
    /\ r_ended.op.reports = <<Report(FALSE)>>

\* The answers of the token endpoint that are server-side failures: an HTTP
\* 5xx status or the "overloaded" body.
ServerFailures == {"overloaded", "http_500", "http_503"}

\* C13: a refresh failure caused by an HTTP 5xx status or an "overloaded"
\* answer is classified as transient: the operation waits and tries again
\* while attempts remain, and when they have run out the callback is told
\* that the failure is transient, never that re-authentication is required.
C13_ServerFailuresAreTransient ==
    \A f \in Frames :
        f.last_error \in ServerFailures =>
            /\ f.verdict = "transient"
            /\ f.pc = "idle" =>
                  /\ f.attempt = r_settings.count
                  /\ f.reports # <<>>
                  /\ f.reports[Len(f.reports)] = Report(TRUE)

\* C14: at no time are two executions of _refresh_token_with_retry in
\* progress at once.
C14_OneRefreshAtATime == Cardinality(InProgress) <= 1

\* C15: once a refresh has succeeded, every chat request dispatched
\* afterwards carries the refreshed token in its Authorization header and is
\* signed with it, whether the proxy existed when the refresh completed or
\* was created later.
C15_RequestsUseRefreshedToken ==
    (p_sent.pc = "sent" /\ p_sent.fresh # 0) =>
        /\ p_sent.authorization = p_sent.fresh
        /\ p_sent.signature_key = p_sent.fresh

\* C16: in every chat request the token of the Authorization header and the
\* key of the HMAC signature are the same credential value, also when a
\* refresh updates the credential while requests are being made.
C16_HeaderAndSignatureAgree ==
    p_sent.pc = "sent" => p_sent.authorization = p_sent.signature_key

\* A request was sent with a token a refresh had put into the live
\* credential, while the next refresh was in progress.
C16_Witness ==
    /\ p_sent.pc = "sent"
    /\ p_sent.authorization = p_sent.fresh
    /\ p_sent.fresh # 0
    /\ InProgress # {}

\* C17: an exception of the registered callback never leaves the refresh
\* operation and never changes its outcome: an operation that handed the
\* callback its token data, after the exchange and the save had succeeded,
\* ends at once and successfully.
C17_CallbackFailureSwallowed ==
    \A f \in Frames :
        /\ f.result # "raised"
        /\ (f.reports # <<>> /\ f.reports[1] = SuccessReport) =>
              f.pc = "idle" /\ f.result = "success" /\ Len(f.reports) = 1

\* Execution o ends in this step reporting failure: it returns False, or the
\* callback raised on the error report it was sent.
EndsReportingFailure(o) ==
    /\ r_op[o].pc = "attempt"
    /\ r_op'[o] = EndedOp
    /\ r_ended'.id = o
    /\ r_ended'.op.result \in {"failed", "raised"}

\* C36: whenever a refresh operation ends reporting failure (returns False
\* or sends an error report to the callback), the live in-memory credential
\* used for signing and the persisted credential are the same as before the
\* operation started. The stored and the live credential change only in the
\* step in which an execution ends, so this is said of that step.
C36_FailedRefreshChangesNothing ==
    [][\A o \in Ops :
          EndsReportingFailure(o) => (r_cred' = r_cred /\ p_config' = p_config)]_vars

\* The same of an execution whose every answer from the token endpoint was an
\* error.
FailedRequestChangesNothing ==
    [][\A o \in Ops :
          (EndsReportingFailure(o) /\ r_ended'.op.last_error \in Responses)
              => (r_cred' = r_cred /\ p_config' = p_config)]_vars

(***************************************************************************)
(*                    THE THREADS OF THE TOKEN REFRESHER                   *)
(*                                                                         *)
(* OAuthTokenRefresher.start(), stop() and _run_loop with the thread       *)
(* objects they create: _running, _stop_event and _thread are shared by    *)
(* the caller of start()/stop() and by every _run_loop thread alive. A     *)
(* thread is at the top of its loop, in its check (load, _should_refresh), *)
(* inside _schedule_refresh waiting for the refresh, or in                 *)
(* _stop_event.wait. start() and stop() are called one after the other.    *)
(* h_stopped and h_late are history: stop() has returned and no start()    *)
(* followed; a check or refresh began in that time.                        *)
(***************************************************************************)
MaxThreads == 3
Threads == 1..MaxThreads
NoThread == 0

ThreadsInit ==
    /\ h_running = FALSE
    /\ h_event = FALSE
    /\ h_thread = NoThread
    /\ h_pc = [t \in Threads |-> "none"]
    /\ h_stop = "idle"
    /\ h_stopped = FALSE
    /\ h_late = FALSE
\* A refresher nobody starts: no thread is ever created.
ThreadsIdle ==
    /\ h_running = FALSE
    /\ h_event = FALSE
    /\ h_thread = NoThread
    /\ h_pc = <<>>
    /\ h_stop = "idle"
    /\ h_stopped = FALSE
    /\ h_late = FALSE

\* The threads whose _run_loop has begun and has not returned.
AliveThreads == {t \in Threads : h_pc[t] \notin {"none", "dead"}}
UnusedThreads == {t \in Threads : h_pc[t] = "none"}

\* What start() does to _stop_event.
EventAfterStart(event) == FALSE

\* start(): nothing when _running; else _running = True, the event is
\* cleared, a new thread is created and started.
StartThread ==
    /\ h_stop = "idle"
    /\ ~h_running
    /\ UnusedThreads # {}
    /\ LET t == CHOOSE u \in UnusedThreads : \A v \in UnusedThreads : u <= v
       IN  /\ h_thread' = t
           /\ h_pc' = [h_pc EXCEPT ![t] = "top"]
    /\ h_running' = TRUE
    /\ h_event' = EventAfterStart(h_event)
    /\ h_stopped' = FALSE
    /\ UNCHANGED <<h_stop, h_late>>

\* stop() up to its join: nothing when not _running; else _running = False
\* and the event is set.
StopBegins ==
    /\ h_stop = "idle"
    /\ h_running
    /\ h_running' = FALSE
    /\ h_event' = TRUE
    /\ h_stop' = "joining"
    /\ UNCHANGED <<h_thread, h_pc, h_stopped, h_late>>

\* join(timeout=5.0) returns because the thread has ended; _thread = None.
StopJoins ==
    /\ h_stop = "joining"
    /\ h_thread # NoThread => h_pc[h_thread] = "dead"
    /\ h_thread' = NoThread
    /\ h_stop' = "idle"
    /\ h_stopped' = TRUE
    /\ UNCHANGED <<h_running, h_event, h_pc, h_late>>

\* join(timeout=5.0) times out: the thread is inside _schedule_refresh, which
\* waits up to 60 s for the refresh (or runs it to its end); _thread = None
\* all the same.
StopTimesOut ==
    /\ h_stop = "joining"
    /\ h_thread # NoThread
    /\ h_pc[h_thread] = "refreshing"
    /\ h_thread' = NoThread
    /\ h_stop' = "idle"
    /\ h_stopped' = TRUE
    /\ UNCHANGED <<h_running, h_event, h_pc, h_late>>

\* _run_loop: "while not self._stop_event.is_set()".
LoopTop(t) ==
    /\ h_pc[t] = "top"
    /\ h_pc' = [h_pc EXCEPT ![t] = IF h_event THEN "dead" ELSE "checking"]
    /\ UNCHANGED <<h_running, h_event, h_thread, h_stop, h_stopped, h_late>>

\* _run_loop: the credential is loaded and looked at; _schedule_refresh is
\* entered when it is due, and the thread goes on to the wait when it is not
\* or when an exception was logged.
LoopCheck(t) ==
    /\ h_pc[t] = "checking"
    /\ \E due \in BOOLEAN :
        h_pc' = [h_pc EXCEPT ![t] = IF due THEN "refreshing" ELSE "waiting"]
    /\ h_late' = (h_late \/ h_stopped)
    /\ UNCHANGED <<h_running, h_event, h_thread, h_stop, h_stopped>>

\* _schedule_refresh returns: the result came, or the 60 s are over.
ScheduleReturns(t) ==
    /\ h_pc[t] = "refreshing"
    /\ h_pc' = [h_pc EXCEPT ![t] = "waiting"]
    /\ UNCHANGED <<h_running, h_event, h_thread, h_stop, h_stopped, h_late>>

\* _stop_event.wait(check_interval) returns: the event is set, or the
\* interval is over.
WaitReturns(t) ==
    /\ h_pc[t] = "waiting"
    /\ h_pc' = [h_pc EXCEPT ![t] = "top"]
    /\ UNCHANGED <<h_running, h_event, h_thread, h_stop, h_stopped, h_late>>

MaxServerThreads == 3
ServerThreads == 1..MaxServerThreads
NoServer == 0

ServerInit ==
    /\ v_state = "stopped"
    /\ v_thread = NoServer
    /\ v_server = NoServer
    /\ v_pc = [t \in ServerThreads |-> "none"]
    /\ v_exit = [t \in ServerThreads |-> FALSE]
    /\ v_stop = "idle"
    /\ v_stopped = FALSE
\* A manager nobody starts: no thread is ever created.
ServerIdle ==
    /\ v_state = "stopped"
    /\ v_thread = NoServer
    /\ v_server = NoServer
    /\ v_pc = <<>>
    /\ v_exit = <<>>
    /\ v_stop = "idle"
    /\ v_stopped = FALSE

ServingThreads == {t \in ServerThreads : v_pc[t] \in {"setup", "serving"}}
UnusedServerThreads == {t \in ServerThreads : v_pc[t] = "none"}

\* start(settings): refused while RUNNING or STARTING; ERROR without an api
\* key; else STARTING and a new thread.
ServerStart ==
    /\ v_stop = "idle"
    /\ v_state \notin {"running", "starting"}
    /\ UnusedServerThreads # {}
    /\ \E has_key \in BOOLEAN :
        IF has_key
        THEN LET t == CHOOSE u \in UnusedServerThreads :
                          \A w \in UnusedServerThreads : u <= w
             IN  /\ v_state' = "starting"
                 /\ v_thread' = t
                 /\ v_pc' = [v_pc EXCEPT ![t] = "setup"]
                 /\ v_stopped' = FALSE
        ELSE /\ v_state' = "error"
             /\ UNCHANGED <<v_thread, v_pc, v_stopped>>
    /\ UNCHANGED <<v_server, v_exit, v_stop>>

\* stop() up to its join: refused unless RUNNING or STARTING; STOPPING, and
\* should_exit on the server when there is one.
ServerStopBegins ==
    /\ v_stop = "idle"
    /\ v_state \in {"running", "starting"}
    /\ v_state' = "stopping"
    /\ v_exit' = IF v_server # NoServer THEN [v_exit EXCEPT ![v_server] = TRUE]
                 ELSE v_exit
    /\ v_stop' = "joining"
    /\ UNCHANGED <<v_thread, v_server, v_pc, v_stopped>>

\* Whether the join of stop() is over: the thread has ended, or the 5 s are
\* over on a thread that serves without having been told to exit.
JoinOver(t) ==
    \/ t = NoServer
    \/ v_pc[t] = "dead"
    \/ v_pc[t] = "serving" /\ ~v_exit[t]

\* stop() after its join: STOPPED, return True.
ServerStopReturns ==
    /\ v_stop = "joining"
    /\ JoinOver(v_thread)
    /\ v_state' = "stopped"
    /\ v_stop' = "idle"
    /\ v_stopped' = TRUE
    /\ UNCHANGED <<v_thread, v_server, v_pc, v_exit>>

\* _run_server up to serve(): the server is created, the state is RUNNING;
\* or an exception sets ERROR and the finally block clears _server.
RunServerSetup(t) ==
    /\ v_pc[t] = "setup"
    /\ \E ok \in BOOLEAN :
        IF ok
        THEN /\ v_server' = t
             /\ v_state' = "running"
             /\ v_pc' = [v_pc EXCEPT ![t] = "serving"]
        ELSE /\ v_server' = NoServer
             /\ v_state' = "error"
             /\ v_pc' = [v_pc EXCEPT ![t] = "dead"]
    /\ UNCHANGED <<v_thread, v_exit, v_stop, v_stopped>>

\* serve() returns after should_exit, or raises; the finally block clears
\* _server and sets STOPPED unless the state is ERROR.
RunServerEnds(t) ==
    /\ v_pc[t] = "serving"
    /\ \E raised \in BOOLEAN :
        /\ ~raised => v_exit[t]
        /\ v_state' = IF raised \/ v_state = "error" THEN "error" ELSE "stopped"
    /\ v_server' = NoServer
    /\ v_pc' = [v_pc EXCEPT ![t] = "dead"]
    /\ UNCHANGED <<v_thread, v_exit, v_stop, v_stopped>>

\* C39: for every interleaving of start(), stop() and the server thread the
\* reported state agrees with the thread: whenever the state is STOPPED no
\* server thread is still starting or serving, a stop() that returned True
\* is not followed by state RUNNING without a new start(), and a
\* stop-then-start restart never leaves two server threads alive.
C39_StateAgreesWithThread ==
    /\ v_state = "stopped" => ServingThreads = {}
    /\ v_stopped => v_state # "running"
    /\ Cardinality(ServingThreads) <= 1

(***************************************************************************)
(*                        CUSTOM API AUTHENTICATION                        *)
(*                                                                         *)
(* Strings are sequences of pieces: a key is <<"key1">>, the header value  *)
(* "Bearer key1" is <<"Bearer ", "key1">>, the empty string is <<>>; a     *)
(* path is a prefix followed by the rest ("/healthz" is <<"/health",       *)
(* "z">>). Time is in seconds.                                             *)
(***************************************************************************)
SettingsCacheTTL == 5

NoString == <<>>
KeyTexts == {<<"key1">>, <<"Bearer ", "key1">>}
HeaderNames == {"Authorization", "cs-sk-key"}

\* AppSettings.custom_api_key and custom_auth_header; both default to "".
AuthSettings ==
    [custom_api_key : {NoString} \cup KeyTexts,
     custom_auth_header : {""} \cup HeaderNames]

\* What a request may carry: no header of either name, or one of them with
\* an empty value, a key, a wrong key, or one of these after "Bearer ".
HeaderValues ==
    {NoString, <<"key1">>, <<"key2">>, <<"Bearer ", "key1">>,
     <<"Bearer ", "Bearer ", "key1">>}
NoHeader == [name |-> "none", value |-> NoString]
Paths ==
    {<<"/health">>, <<"/admin", "/login">>, <<"/v1", "/models">>,
     <<"/v1", "/chat/completions">>, <<"/health", "z">>}
Requests ==
    [method : {"GET", "POST"}, path : Paths,
     header : {NoHeader} \cup [name : HeaderNames, value : HeaderValues]]

\* request.headers.get(name): None when the request has no such header.
HeadersGet(req, name) ==
    IF req.header.name = name
    THEN [present |-> TRUE, text |-> req.header.value]
    ELSE [present |-> FALSE, text |-> NoString]

\* skip_paths and "request.url.path.startswith(path)".
SkipPaths == {"/health", "/docs", "/redoc", "/openapi.json", "/admin"}
StartsWith(text, prefix) == Len(text) > 0 /\ Head(text) = prefix
IsSkipped(path) == \E p \in SkipPaths : StartsWith(path, p)

\* settings.custom_auth_header or "Authorization"
AuthHeaderName(settings) ==
    IF settings.custom_auth_header = "" THEN "Authorization"
    ELSE settings.custom_auth_header

\* actual_key: auth_value without a leading "Bearer ".
ActualKey(auth_value) ==
    IF StartsWith(auth_value, "Bearer ") THEN Tail(auth_value) ELSE auth_value

\* custom_auth_middleware once the settings are at hand: "handler" stands for
\* call_next(request), the other two for the 401 answers.
CustomAuthMiddleware(settings, req) ==
    IF IsSkipped(req.path) THEN "handler"
    ELSE IF settings.custom_api_key = NoString THEN "handler"
    ELSE LET auth_value == HeadersGet(req, AuthHeaderName(settings))
         IN  IF ~auth_value.present \/ auth_value.text = NoString
             THEN "missing_api_key"
             ELSE IF ActualKey(auth_value.text) # settings.custom_api_key
             THEN "invalid_api_key"
             ELSE "handler"

\* _settings_cache before the first load, and _get_cached_settings.
NoCache == [loaded |-> FALSE, data |-> [custom_api_key |-> NoString,
                                        custom_auth_header |-> ""], age |-> 0]
GetCachedSettings(cache, current) ==
    IF ~cache.loaded \/ cache.age > SettingsCacheTTL
    THEN [loaded |-> TRUE, data |-> current, age |-> 0]
    ELSE cache

\* How the request should be answered under the settings in force.
Answer(settings, req) ==
    LET key == settings.custom_api_key
        v == HeadersGet(req, AuthHeaderName(settings))
    IN  IF IsSkipped(req.path) THEN "handler"
        ELSE IF key = NoString THEN "handler"
        ELSE IF v.present /\ (v.text = key \/ v.text = <<"Bearer ">> \o key)
        THEN "handler"
        ELSE IF ~v.present THEN "missing_api_key"
        ELSE "invalid_api_key"

NoAnswer ==
    [method |-> "none", skipped |-> FALSE, stale |-> FALSE, value |-> NoString,
     expected |-> "none", response |-> "none"]

AuthInit ==
    /\ a_settings \in AuthSettings
    /\ a_cache = NoCache
    /\ a_last = NoAnswer

AuthIdle ==
    /\ a_settings = [custom_api_key |-> NoString, custom_auth_header |-> ""]
    /\ a_cache = NoCache
    /\ a_last = NoAnswer

\* The settings file is rewritten (admin page, GUI, or by hand).
SaveSettings ==
    /\ \E new \in AuthSettings : new # a_settings /\ a_settings' = new
    /\ UNCHANGED <<a_cache, a_last>>

\* One second passes.
ClockTick ==
    /\ a_cache.loaded
    /\ a_cache.age <= SettingsCacheTTL
    /\ a_cache' = [a_cache EXCEPT !.age = @ + 1]
    /\ UNCHANGED <<a_settings, a_last>>

\* A request goes through custom_auth_middleware; the settings are looked up
\* only for a path that is not skipped.
HttpRequest ==
    \E req \in Requests :
        LET cache == IF IsSkipped(req.path) THEN a_cache
                     ELSE GetCachedSettings(a_cache, a_settings)
        IN  /\ a_cache' = cache
            /\ a_last' = [method |-> req.method,
                          skipped |-> IsSkipped(req.path),
                          stale |-> cache.data # a_settings,
                          value |-> HeadersGet(req, AuthHeaderName(a_settings)).text,
                          expected |-> Answer(a_settings, req),
                          response |-> CustomAuthMiddleware(cache.data, req)]
            /\ UNCHANGED a_settings

\* C18: under the settings in force at the time of a request, a request to a
\* path with an exempt prefix reaches its handler; any other request, GET or
\* POST, reaches its handler if and only if no custom_api_key is configured
\* or the configured header carries exactly the key, bare or after "Bearer ";
\* otherwise the answer is 401 missing_api_key when the header is absent and
\* 401 invalid_api_key when its value is wrong.
C18_AnsweredBySettingsInForce == a_last.response = a_last.expected

(***************************************************************************)
(* Idle values of the other parts.                                         *)
(***************************************************************************)
StreamIdle ==
    /\ s_endpoint = "none"
    /\ s_preserve = FALSE
    /\ s_pc = "idle"
    /\ s_input = <<>>
    /\ s_events = <<>>
    /\ s_state = InitialStreamState
    /\ s_count = 0

RefreshIdle ==
    /\ r_cred = Credential("none", 0, NoExpiry)
    /\ r_now = 0
    /\ r_running = FALSE
    /\ r_checks = 0
    /\ r_last = [oauth |-> FALSE, has_rt |-> FALSE, found |-> "none",
                 should |-> "none", started |-> 0]
    /\ r_op = [o \in Ops |-> IdleOp]
    /\ r_ended = NoneEnded
    /\ r_requests = {}
    /\ r_settings = [count |-> RetryCount, delay |-> RetryDelaySeconds]
    /\ r_fresh = 0
    /\ p_config = NoProxy
    /\ p_sent = NoRequest

GateOnly ==
    UNCHANGED <<streamVars, refreshVars, authVars, answerVars, translateVars, telemetryVars,
               limiterVars, threadVars, serverVars>>
StreamOnly ==
    UNCHANGED <<gateVars, refreshVars, authVars, answerVars, translateVars, telemetryVars,
               limiterVars, threadVars, serverVars>>
RefreshOnly ==
    UNCHANGED <<gateVars, streamVars, authVars, answerVars, translateVars, telemetryVars,
               limiterVars, threadVars, serverVars>>
AuthOnly ==
    UNCHANGED <<gateVars, streamVars, refreshVars, answerVars, translateVars, telemetryVars,
               limiterVars, threadVars, serverVars>>
TranslateOnly ==
    UNCHANGED <<gateVars, streamVars, refreshVars, authVars, answerVars, telemetryVars,
               limiterVars, threadVars, serverVars>>
TelemetryOnly ==
    UNCHANGED <<gateVars, streamVars, refreshVars, authVars, answerVars, translateVars,
               limiterVars, threadVars, serverVars>>
AnswerOnly ==
    UNCHANGED <<gateVars, streamVars, refreshVars, authVars, translateVars, telemetryVars,
               limiterVars, threadVars, serverVars>>
LimiterOnly ==
    UNCHANGED <<gateVars, streamVars, refreshVars, authVars, answerVars, translateVars,
               telemetryVars, threadVars, serverVars>>
ThreadsOnly ==
    UNCHANGED <<gateVars, streamVars, refreshVars, authVars, answerVars, translateVars,
               telemetryVars, limiterVars, serverVars>>
ServerOnly ==
    UNCHANGED <<gateVars, streamVars, refreshVars, authVars, answerVars, translateVars,
               telemetryVars, limiterVars, threadVars>>

Init ==
    /\ GateInit /\ StreamIdle /\ RefreshIdle /\ AuthIdle
    /\ AnswerIdle /\ TranslateIdle /\ TelemetryIdle
    /\ LimiterIdle /\ ThreadsIdle /\ ServerIdle
Next ==
    \E c \in Callers :
        \/ Request(c) /\ GateOnly
        \/ Acquire(c) /\ GateOnly
        \/ CancelWaiting(c) /\ GateOnly
        \/ CallEnds(c) /\ GateOnly
        \/ OpenStream(c) /\ GateOnly
        \/ OpenFails(c) /\ GateOnly
        \/ NextChunk(c) /\ GateOnly
        \/ UpstreamEnd(c) /\ GateOnly
        \/ UpstreamError(c) /\ GateOnly
        \/ CancelAwait(c) /\ GateOnly
        \/ Resume(c) /\ GateOnly
        \/ Close(c) /\ GateOnly
Spec == Init /\ [][Next]_vars

\* The same calls under fair scheduling. The event loop runs every task that
\* is ready: a caller at the head of the queue is given a free permit, and
\* a dispatched call goes on (its upstream answers or fails, the consumer of
\* its stream asks for the next event or closes it), so that it ends.
Runs(c) ==
    \/ CallEnds(c)
    \/ OpenStream(c)
    \/ OpenFails(c)
    \/ NextChunk(c)
    \/ UpstreamEnd(c)
    \/ UpstreamError(c)
    \/ Resume(c)
    \/ Close(c)
FairScheduling ==
    \A c \in Callers :
        /\ WF_vars(Acquire(c) /\ GateOnly)
        /\ WF_vars(Runs(c) /\ GateOnly)
\* Fewer permits than callers, so that callers wait.
InitFair == Init /\ capacity < NumCallers
SpecFair == InitFair /\ [][Next]_vars /\ FairScheduling

InitStream ==
    /\ StreamInit /\ GateIdle /\ RefreshIdle /\ AuthIdle
    /\ AnswerIdle /\ TranslateIdle /\ TelemetryIdle
    /\ LimiterIdle /\ ThreadsIdle /\ ServerIdle
NextStream ==
    \/ UpstreamLine /\ StreamOnly
    \/ StreamEnd /\ StreamOnly
    \/ StreamRaises /\ StreamOnly
    \/ NonSseResponse /\ StreamOnly
SpecStream == InitStream /\ [][NextStream]_vars

InitRefresh ==
    /\ RefreshInit /\ GateIdle /\ StreamIdle /\ AuthIdle
    /\ AnswerIdle /\ TranslateIdle /\ TelemetryIdle
    /\ LimiterIdle /\ ThreadsIdle /\ ServerIdle
NextRefresh ==
    \/ Start /\ RefreshOnly
    \/ Stop /\ RefreshOnly
    \/ Check /\ RefreshOnly
    \/ RefreshTokenCallAlone /\ RefreshOnly
    \/ \E o \in Ops : RefreshAttempt(o) /\ RefreshOnly
    \/ \E o \in Ops : RetryWake(o) /\ RefreshOnly
SpecRefresh == InitRefresh /\ [][NextRefresh]_vars

\* One due credential, each of the retry settings; executions of the refresh
\* operation one after the other, and chat requests.
InitRetry ==
    /\ RetryInit /\ GateIdle /\ StreamIdle /\ AuthIdle
    /\ AnswerIdle /\ TranslateIdle /\ TelemetryIdle
    /\ LimiterIdle /\ ThreadsIdle /\ ServerIdle
NextRetry ==
    \/ RefreshTokenCallAlone /\ RefreshOnly
    \/ \E o \in Ops : RefreshAttempt(o) /\ RefreshOnly
    \/ \E o \in Ops : RetryWake(o) /\ RefreshOnly
    \/ ChatRequest /\ RefreshOnly
    \/ SignRequest /\ RefreshOnly
SpecRetry == InitRetry /\ [][NextRetry]_vars

\* The same credential under the default settings; the check loop, and calls
\* of the refresh operation at any time.
InitOverlap ==
    /\ RetryInit /\ r_settings.count = RetryCount
    /\ GateIdle /\ StreamIdle /\ AuthIdle /\ AnswerIdle /\ TranslateIdle
    /\ TelemetryIdle
    /\ LimiterIdle /\ ThreadsIdle /\ ServerIdle
NextOverlap ==
    \/ Start /\ RefreshOnly
    \/ Check /\ RefreshOnly
    \/ RefreshTokenCall /\ RefreshOnly
    \/ \E o \in Ops : RefreshAttempt(o) /\ RefreshOnly
    \/ \E o \in Ops : RetryWake(o) /\ RefreshOnly
SpecOverlap == InitOverlap /\ [][NextOverlap]_vars

\* Requests, changes of the settings file and the passing of time.
InitAuth ==
    /\ AuthInit /\ GateIdle /\ StreamIdle /\ RefreshIdle
    /\ AnswerIdle /\ TranslateIdle /\ TelemetryIdle
    /\ LimiterIdle /\ ThreadsIdle /\ ServerIdle
NextAuth ==
    \/ SaveSettings /\ AuthOnly
    \/ ClockTick /\ AuthOnly
    \/ HttpRequest /\ AuthOnly
SpecAuth == InitAuth /\ [][NextAuth]_vars

\* One chat request on either endpoint, from its arrival to its answer.
InitAnswer ==
    /\ AnswerInit /\ GateIdle /\ StreamIdle /\ RefreshIdle /\ AuthIdle
    /\ TranslateIdle /\ TelemetryIdle
    /\ LimiterIdle /\ ThreadsIdle /\ ServerIdle
NextAnswer ==
    \/ Receive /\ AnswerOnly
    \/ Dispatch /\ AnswerOnly
    \/ UpstreamAnswer /\ AnswerOnly
SpecAnswer == InitAnswer /\ [][NextAnswer]_vars

\* One conversation of the messages endpoint, translated and taken back.
InitTranslate ==
    /\ TranslateInit /\ GateIdle /\ StreamIdle /\ RefreshIdle /\ AuthIdle
    /\ AnswerIdle /\ TelemetryIdle
    /\ LimiterIdle /\ ThreadsIdle /\ ServerIdle
NextTranslate ==
    \/ AddMessage /\ TranslateOnly
    \/ Translate /\ TranslateOnly
    \/ TranslateBack /\ TranslateOnly
SpecTranslate == InitTranslate /\ [][NextTranslate]_vars

\* Chat calls of the proxy, interleaved at their awaits.
InitTelemetry ==
    /\ TelemetryInit /\ GateIdle /\ StreamIdle /\ RefreshIdle /\ AuthIdle
    /\ AnswerIdle /\ TranslateIdle
    /\ LimiterIdle /\ ThreadsIdle /\ ServerIdle
NextTelemetry ==
    \E c \in ChatCalls :
        \/ BeginCall(c) /\ TelemetryOnly
        \/ PostRunStarted(c) /\ TelemetryOnly
        \/ PostVgif(c) /\ TelemetryOnly
        \/ AskUpstream(c) /\ TelemetryOnly
        \/ UpstreamReplies(c) /\ TelemetryOnly
        \/ PostRunError(c) /\ TelemetryOnly
SpecTelemetry == InitTelemetry /\ [][NextTelemetry]_vars

\* Requests of two clients to a limiter of any limits, as time passes.
InitLimiter ==
    /\ LimiterInit /\ GateIdle /\ StreamIdle /\ RefreshIdle /\ AuthIdle
    /\ AnswerIdle /\ TranslateIdle /\ TelemetryIdle
    /\ ThreadsIdle
    /\ ServerIdle
NextLimiter ==
    \/ LimiterTick /\ LimiterOnly
    \/ CheckRateLimit /\ LimiterOnly
    \/ GetStats /\ LimiterOnly
    \/ ResetLimiter /\ LimiterOnly
SpecLimiter == InitLimiter /\ [][NextLimiter]_vars

\* Calls of start() and stop() and the steps of the threads they leave.
InitThreads ==
    /\ ThreadsInit /\ GateIdle /\ StreamIdle /\ RefreshIdle /\ AuthIdle
    /\ AnswerIdle /\ TranslateIdle /\ TelemetryIdle /\ LimiterIdle
    /\ ServerIdle
NextThreads ==
    \/ StartThread /\ ThreadsOnly
    \/ StopBegins /\ ThreadsOnly
    \/ StopJoins /\ ThreadsOnly
    \/ StopTimesOut /\ ThreadsOnly
    \/ \E t \in Threads : LoopTop(t) /\ ThreadsOnly
    \/ \E t \in Threads : LoopCheck(t) /\ ThreadsOnly
    \/ \E t \in Threads : ScheduleReturns(t) /\ ThreadsOnly
    \/ \E t \in Threads : WaitReturns(t) /\ ThreadsOnly
SpecThreads == InitThreads /\ [][NextThreads]_vars

\* Calls of start() and stop() and the steps of the server threads.
InitServer ==
    /\ ServerInit /\ GateIdle /\ StreamIdle /\ RefreshIdle /\ AuthIdle
    /\ AnswerIdle /\ TranslateIdle /\ TelemetryIdle /\ LimiterIdle /\ ThreadsIdle
NextServer ==
    \/ ServerStart /\ ServerOnly
    \/ ServerStopBegins /\ ServerOnly
    \/ ServerStopReturns /\ ServerOnly
    \/ \E t \in ServerThreads : RunServerSetup(t) /\ ServerOnly
    \/ \E t \in ServerThreads : RunServerEnds(t) /\ ServerOnly
SpecServer == InitServer /\ [][NextServer]_vars

====
